---- MODULE Spec2Model ----
(***************************************************************************)
(* Abstract triangle solver of the geometry library                        *)
(* (src/src/shapes/triangle.rs, src/src/utility/mod.rs,                    *)
(* src/src/scalar/mod.rs).                                                 *)
(*                                                                         *)
(* The generic Scalar type T is modelled by exact arithmetic:              *)
(*   - a length-like scalar is a rational <<n, d>> in lowest terms, d > 0; *)
(*     d = 0 encodes the non-finite values (+Inf, -Inf, NaN);              *)
(*   - a scalar used as an angle in radians is <<h, n, d>>, meaning the    *)
(*     angle h*PI + phi with 0 <= phi < PI and sgn(cos phi)*cos^2 phi =    *)
(*     n/d; again d = 0 encodes the non-finite values.                     *)
(* sqrt is defined where its result is rational (and on negative input,    *)
(* where it is NaN); the inputs the model draws are those on which every   *)
(* square root the code takes is rational.                                 *)
(***************************************************************************)
EXTENDS Integers, Sequences, FiniteSets, TLC

\* ------------------------------------------------------------------------
\* Bounds
\* ------------------------------------------------------------------------
MaxSide == 5

\* largest coordinate of a point
MaxCoord == 4

\* ------------------------------------------------------------------------
\* Integer helpers
\* ------------------------------------------------------------------------
Abs(n) == IF n < 0 THEN -n ELSE n

Sgn(n) == IF n < 0 THEN -1 ELSE IF n = 0 THEN 0 ELSE 1

RECURSIVE Gcd(_, _)
Gcd(m, n) == IF n = 0 THEN m ELSE Gcd(n, m % n)

RECURSIVE ISqrtSearch(_, _, _)
ISqrtSearch(lo, hi, n) ==
    IF lo >= hi THEN lo
    ELSE LET mid == (lo + hi + 1) \div 2
         IN  IF mid * mid <= n THEN ISqrtSearch(mid, hi, n)
             ELSE ISqrtSearch(lo, mid - 1, n)

\* floor of the square root of a natural number
ISqrt(n) == ISqrtSearch(0, IF n < 46340 THEN n ELSE 46340, n)

IsSquareNat(n) == LET IsRoot(r) == r * r = n IN IsRoot(ISqrt(n))

\* ------------------------------------------------------------------------
\* Scalar: lengths (src/src/scalar/mod.rs)
\* ------------------------------------------------------------------------
NaN == <<0, 0>>
PosInf == <<1, 0>>
NegInf == <<-1, 0>>

\* a rational in lowest terms with positive denominator
Rat(n, d) ==
    LET Lowest(g, s) == <<s * (n \div g), s * (d \div g)>>
    IN  Lowest(Gcd(Abs(n), Abs(d)), IF d < 0 THEN -1 ELSE 1)

ZERO == <<0, 1>>

\* T::i(literal)
I(literal) == <<literal, 1>>

\* T::f(0.5)
F_0_5 == <<1, 2>>

is_finite(x) == x[2] # 0

IsNaN(x) == x = NaN

Neg(x) == <<-x[1], x[2]>>

Add(x, y) ==
    IF is_finite(x) /\ is_finite(y)
    THEN LET Sum(g) ==
                 Rat(x[1] * (y[2] \div g) + y[1] * (x[2] \div g), (x[2] \div g) * y[2])
         IN  Sum(Gcd(x[2], y[2]))
    ELSE IF IsNaN(x) \/ IsNaN(y) THEN NaN
    ELSE IF ~is_finite(x) /\ ~is_finite(y) THEN (IF x = y THEN x ELSE NaN)
    ELSE IF is_finite(x) THEN y ELSE x

Sub(x, y) == Add(x, Neg(y))

Mul(x, y) ==
    IF is_finite(x) /\ is_finite(y)
    THEN LET Product(g1, g2) ==
                 <<(x[1] \div g1) * (y[1] \div g2), (x[2] \div g2) * (y[2] \div g1)>>
         IN  Product(Gcd(Abs(x[1]), y[2]), Gcd(Abs(y[1]), x[2]))
    ELSE IF IsNaN(x) \/ IsNaN(y) \/ x = ZERO \/ y = ZERO THEN NaN
    ELSE <<Sgn(x[1]) * Sgn(y[1]), 0>>

Div(x, y) ==
    IF is_finite(x) /\ is_finite(y)
    THEN IF y[1] = 0
         THEN <<Sgn(x[1]), 0>>
         ELSE Mul(x, <<Sgn(y[1]) * y[2], Abs(y[1])>>)
    ELSE IF IsNaN(x) \/ IsNaN(y) \/ (~is_finite(x) /\ ~is_finite(y)) THEN NaN
    ELSE IF is_finite(x) THEN ZERO
    ELSE <<x[1] * (IF y[1] < 0 THEN -1 ELSE 1), 0>>

\* powi(2)
Powi2(x) == Mul(x, x)

\* PartialOrd on scalars; every comparison with NaN is false
Lt(x, y) ==
    IF IsNaN(x) \/ IsNaN(y) THEN FALSE
    ELSE IF is_finite(x) /\ is_finite(y) THEN x[1] * y[2] < y[1] * x[2]
    ELSE IF ~is_finite(x) /\ ~is_finite(y) THEN x[1] < y[1]
    ELSE IF is_finite(x) THEN y = PosInf ELSE x = NegInf

Eq(x, y) == ~IsNaN(x) /\ ~IsNaN(y) /\ x = y

Le(x, y) == Lt(x, y) \/ Eq(x, y)

Gt(x, y) == Lt(y, x)

Ge(x, y) == Le(y, x)

\* the scalar has a rational square root (or none at all)
IsSquare(x) ==
    ~is_finite(x) \/ x[1] < 0 \/ (IsSquareNat(x[1]) /\ IsSquareNat(x[2]))

\* sqrt: NaN below zero, exact on squares of rationals
sqrt(x) ==
    IF IsNaN(x) \/ x = NegInf \/ (is_finite(x) /\ x[1] < 0) THEN NaN
    ELSE IF x = PosInf THEN PosInf
    ELSE CHOOSE r \in {<<ISqrt(x[1]), ISqrt(x[2])>>} :
             r[1] * r[1] = x[1] /\ r[2] * r[2] = x[2]

\* ------------------------------------------------------------------------
\* Scalar: angles in radians (src/src/scalar/mod.rs)
\* ------------------------------------------------------------------------
ANaN == <<0, 0, 0>>
APosInf == <<0, 1, 0>>
ANegInf == <<0, -1, 0>>

\* T::ZERO read as an angle
ZERO_rad == <<0, 1, 1>>

\* T::PI
PI == <<1, 1, 1>>

a_is_finite(x) == x[3] # 0

\* signed squared cosine of the part of the angle within its half turn
Q(x) == <<x[2], x[3]>>

ALt(x, y) ==
    IF x = ANaN \/ y = ANaN THEN FALSE
    ELSE IF a_is_finite(x) /\ a_is_finite(y)
         THEN x[1] < y[1] \/ (x[1] = y[1] /\ Lt(Q(y), Q(x)))
    ELSE IF ~a_is_finite(x) /\ ~a_is_finite(y) THEN x[2] < y[2]
    ELSE IF a_is_finite(x) THEN y = APosInf ELSE x = ANegInf

AEq(x, y) == x # ANaN /\ y # ANaN /\ x = y

ALe(x, y) == ALt(x, y) \/ AEq(x, y)

AGt(x, y) == ALt(y, x)

AGe(x, y) == ALe(y, x)

HalfTurnSign(h) == IF h % 2 = 0 THEN 1 ELSE -1

\* cosine and sine of the part phi of the angle, 0 <= phi < PI
CosPhi(x) ==
    LET Signed(r) == <<Sgn(x[2]) * r[1], r[2]>> IN Signed(sqrt(<<Abs(x[2]), x[3]>>))

SinPhi(x) == sqrt(Sub(I(1), <<Abs(x[2]), x[3]>>))

cos(x) ==
    IF ~a_is_finite(x) THEN NaN
    ELSE LET Turned(c) == <<HalfTurnSign(x[1]) * c[1], c[2]>> IN Turned(CosPhi(x))

sin(x) ==
    IF ~a_is_finite(x) THEN NaN
    ELSE LET Turned(s) == <<HalfTurnSign(x[1]) * s[1], s[2]>> IN Turned(SinPhi(x))

\* the angle in [0, PI) with the given cosine, -1 < c <= 1
FromCos(h, c) == LET Angle(q) == <<h, Sgn(c[1]) * q[1], q[2]>> IN Angle(Powi2(c))

ANeg(x) ==
    IF ~a_is_finite(x) THEN <<0, -x[2], 0>>
    ELSE IF Q(x) = I(1) THEN <<-x[1], 1, 1>>
    ELSE <<-x[1] - 1, -x[2], x[3]>>

AAdd(x, y) ==
    IF a_is_finite(x) /\ a_is_finite(y)
    THEN LET Turn(cs, sn) ==
                 IF Gt(sn, ZERO) \/ (sn = ZERO /\ Gt(cs, ZERO))
                 THEN FromCos(x[1] + y[1], cs)
                 ELSE FromCos(x[1] + y[1] + 1, Neg(cs))
             Sum(cx, sx, cy, sy) ==
                 Turn(Sub(Mul(cx, cy), Mul(sx, sy)), Add(Mul(sx, cy), Mul(cx, sy)))
         IN  Sum(CosPhi(x), SinPhi(x), CosPhi(y), SinPhi(y))
    ELSE IF x = ANaN \/ y = ANaN THEN ANaN
    ELSE IF ~a_is_finite(x) /\ ~a_is_finite(y) THEN (IF x = y THEN x ELSE ANaN)
    ELSE IF a_is_finite(x) THEN y ELSE x

ASub(x, y) == AAdd(x, ANeg(y))

\* Option<T>
None == <<>>
Some(x) == <<x>>

\* acos: None outside [-1, 1]
acos(x) ==
    IF ~is_finite(x) \/ Lt(x, I(-1)) \/ Gt(x, I(1)) THEN None
    ELSE IF x = I(-1) THEN Some(PI)
    ELSE Some(FromCos(0, x))

\* asin: None outside [-1, 1]
asin(x) ==
    IF ~is_finite(x) \/ Lt(x, I(-1)) \/ Gt(x, I(1)) THEN None
    ELSE LET Angle(q) == IF Ge(x, ZERO) THEN Some(<<0, q[1], q[2]>>)
                          ELSE Some(<<-1, -q[1], q[2]>>)
         IN  Angle(Sub(I(1), Powi2(x)))

\* ------------------------------------------------------------------------
\* utility: InvalidInput, MaybeTwo (src/src/utility/mod.rs)
\* ------------------------------------------------------------------------
Ok(v) == [ok |-> TRUE, v |-> v]

\* Err(InvalidInput)
InvalidInput == [ok |-> FALSE, v |-> <<>>]

\* ------------------------------------------------------------------------
\* formulas (src/src/shapes/triangle.rs)
\* ------------------------------------------------------------------------
\* triangle_area with the square root left out
triangle_area_squared(a, b, c) ==
    LET A2(s) == Mul(Mul(Mul(s, Sub(s, a)), Sub(s, b)), Sub(s, c))
    IN  Ok(A2(Mul(F_0_5, Add(Add(a, b), c))))

\* formulas::triangle_area
triangle_area(a, b, c) ==
    LET A2(s) == Mul(Mul(Mul(s, Sub(s, a)), Sub(s, b)), Sub(s, c))
    IN  Ok(sqrt(A2(Mul(F_0_5, Add(Add(a, b), c)))))

\* law_of_sines: side * (sin(num) / sin(den)), filtered
SineRule(side, num, den) ==
    LET Filter(v) == IF Ge(v, ZERO) /\ is_finite(v) THEN Ok(v) ELSE InvalidInput
    IN  Filter(Mul(side, Div(sin(num), sin(den))))

a_from_b_alpha_beta(b, alpha, beta) == SineRule(b, alpha, beta)

a_from_c_alpha_gamma(c, alpha, gamma) == SineRule(c, alpha, gamma)

b_from_a_alpha_beta(a, alpha, beta) == SineRule(a, beta, alpha)

b_from_c_beta_gamma(c, beta, gamma) == SineRule(c, beta, gamma)

c_from_a_alpha_gamma(a, alpha, gamma) == SineRule(a, gamma, alpha)

c_from_b_beta_gamma(b, beta, gamma) == SineRule(b, gamma, beta)

\* return_solutions with the two solutions of the ambiguous arm swapped
return_solutions_smaller_first(value, squared) ==
    IF Lt(squared, ZERO) \/ ~is_finite(value) \/ ~is_finite(squared)
    THEN InvalidInput
    ELSE LET Match(one, two, m) ==
                 IF m = <<TRUE, FALSE, FALSE>> THEN Ok(<<one, None>>)
                 ELSE IF m = <<FALSE, TRUE, FALSE>> THEN Ok(<<two, None>>)
                 ELSE IF m = <<TRUE, TRUE, FALSE>> THEN Ok(<<two, Some(one)>>)
                 ELSE IF m = <<TRUE, TRUE, TRUE>> THEN Ok(<<one, None>>)
                 ELSE InvalidInput
             Solutions(one, two) ==
                 Match(one, two, <<Gt(one, ZERO), Gt(two, ZERO), Eq(one, two)>>)
             Roots(root) == Solutions(Add(value, root), Sub(value, root))
         IN  Roots(sqrt(squared))

\* return_solutions without the test of value and squared before the root
return_solutions_unchecked(value, squared) ==
    LET Match(one, two, m) ==
            IF m = <<TRUE, FALSE, FALSE>> THEN Ok(<<one, None>>)
            ELSE IF m = <<FALSE, TRUE, FALSE>> THEN Ok(<<two, None>>)
            ELSE IF m = <<TRUE, TRUE, FALSE>> THEN Ok(<<one, Some(two)>>)
            ELSE IF m = <<TRUE, TRUE, TRUE>> THEN Ok(<<one, None>>)
            ELSE InvalidInput
        Solutions(one, two) ==
            Match(one, two, <<Gt(one, ZERO), Gt(two, ZERO), Eq(one, two)>>)
        Roots(root) == Solutions(Add(value, root), Sub(value, root))
    IN  Roots(sqrt(squared))

\* return_solutions returning the candidate that is not positive as well
return_solutions_any_sign(value, squared) ==
    IF Lt(squared, ZERO) \/ ~is_finite(value) \/ ~is_finite(squared)
    THEN InvalidInput
    ELSE LET Match(one, two, m) ==
                 IF m = <<TRUE, FALSE, FALSE>> THEN Ok(<<one, Some(two)>>)
                 ELSE IF m = <<FALSE, TRUE, FALSE>> THEN Ok(<<two, None>>)
                 ELSE IF m = <<TRUE, TRUE, FALSE>> THEN Ok(<<one, Some(two)>>)
                 ELSE IF m = <<TRUE, TRUE, TRUE>> THEN Ok(<<one, None>>)
                 ELSE InvalidInput
             Solutions(one, two) ==
                 Match(one, two, <<Gt(one, ZERO), Gt(two, ZERO), Eq(one, two)>>)
             Roots(root) == Solutions(Add(value, root), Sub(value, root))
         IN  Roots(sqrt(squared))

\* return_solutions with the root subtracted for one and added for two
return_solutions_root_swapped(value, squared) ==
    IF Lt(squared, ZERO) \/ ~is_finite(value) \/ ~is_finite(squared)
    THEN InvalidInput
    ELSE LET Match(one, two, m) ==
                 IF m = <<TRUE, FALSE, FALSE>> THEN Ok(<<one, None>>)
                 ELSE IF m = <<FALSE, TRUE, FALSE>> THEN Ok(<<two, None>>)
                 ELSE IF m = <<TRUE, TRUE, FALSE>> THEN Ok(<<one, Some(two)>>)
                 ELSE IF m = <<TRUE, TRUE, TRUE>> THEN Ok(<<one, None>>)
                 ELSE InvalidInput
             Solutions(one, two) ==
                 Match(one, two, <<Gt(one, ZERO), Gt(two, ZERO), Eq(one, two)>>)
             Roots(root) == Solutions(Sub(value, root), Add(value, root))
         IN  Roots(sqrt(squared))

\* return_solutions keeping both of two equal solutions
return_solutions_duplicate(value, squared) ==
    IF Lt(squared, ZERO) \/ ~is_finite(value) \/ ~is_finite(squared)
    THEN InvalidInput
    ELSE LET Match(one, two, m) ==
                 IF m = <<TRUE, FALSE, FALSE>> THEN Ok(<<one, None>>)
                 ELSE IF m = <<FALSE, TRUE, FALSE>> THEN Ok(<<two, None>>)
                 ELSE IF m = <<TRUE, TRUE, FALSE>> THEN Ok(<<one, Some(two)>>)
                 ELSE IF m = <<TRUE, TRUE, TRUE>> THEN Ok(<<one, Some(two)>>)
                 ELSE InvalidInput
             Solutions(one, two) ==
                 Match(one, two, <<Gt(one, ZERO), Gt(two, ZERO), Eq(one, two)>>)
             Roots(root) == Solutions(Add(value, root), Sub(value, root))
         IN  Roots(sqrt(squared))

\* law_of_cosines::return_solutions
return_solutions(value, squared) ==
    IF Lt(squared, ZERO) \/ ~is_finite(value) \/ ~is_finite(squared)
    THEN InvalidInput
    ELSE LET Match(one, two, m) ==
                 IF m = <<TRUE, FALSE, FALSE>> THEN Ok(<<one, None>>)
                 ELSE IF m = <<FALSE, TRUE, FALSE>> THEN Ok(<<two, None>>)
                 ELSE IF m = <<TRUE, TRUE, FALSE>> THEN Ok(<<one, Some(two)>>)
                 ELSE IF m = <<TRUE, TRUE, TRUE>> THEN Ok(<<one, None>>)
                 ELSE InvalidInput
             Solutions(one, two) ==
                 Match(one, two, <<Gt(one, ZERO), Gt(two, ZERO), Eq(one, two)>>)
             Roots(root) == Solutions(Add(value, root), Sub(value, root))
         IN  Roots(sqrt(squared))

\* side^2 = p^2 + q^2 - 2 p q cos(included angle)
IncludedSide(p, q, angle) ==
    LET Root(squared) ==
            IF Gt(squared, ZERO) /\ is_finite(squared) THEN Ok(sqrt(squared))
            ELSE InvalidInput
    IN  Root(Sub(Add(Powi2(p), Powi2(q)), Mul(Mul(Mul(I(2), p), q), cos(angle))))

a_from_bc_alpha(b, c, alpha) == IncludedSide(b, c, alpha)

b_from_ac_beta(a, c, beta) == IncludedSide(a, c, beta)

c_from_ab_gamma(a, b, gamma) == IncludedSide(a, b, gamma)

a_from_bc_beta(b, c, beta) ==
    LET val == Mul(c, cos(beta))
        squared == Sub(Add(Powi2(b), Mul(Powi2(c), Powi2(cos(beta)))), Powi2(c))
    IN  return_solutions(val, squared)

a_from_bc_gamma(b, c, gamma) ==
    LET val == Mul(b, cos(gamma))
        squared == Add(Sub(Mul(Powi2(b), Powi2(cos(gamma))), Powi2(b)), Powi2(c))
    IN  return_solutions(val, squared)

b_from_ac_alpha(a, c, alpha) ==
    LET val == Mul(c, cos(alpha))
        squared == Sub(Add(Powi2(a), Mul(Powi2(c), Powi2(cos(alpha)))), Powi2(c))
    IN  return_solutions(val, squared)

\* b_from_ac_gamma with the value taken from c, the side opposite gamma
b_from_ac_gamma_opposite(a, c, gamma) ==
    LET val == Mul(c, cos(gamma))
        squared == Sub(Add(Powi2(c), Mul(Powi2(a), Powi2(cos(gamma)))), Powi2(a))
    IN  return_solutions(val, squared)

b_from_ac_gamma(a, c, gamma) ==
    LET val == Mul(a, cos(gamma))
        squared == Sub(Add(Powi2(c), Mul(Powi2(a), Powi2(cos(gamma)))), Powi2(a))
    IN  return_solutions(val, squared)

c_from_ab_alpha(a, b, alpha) ==
    LET val == Mul(b, cos(alpha))
        squared == Sub(Add(Powi2(a), Mul(Powi2(b), Powi2(cos(alpha)))), Powi2(b))
    IN  return_solutions(val, squared)

c_from_ab_beta(a, b, beta) ==
    LET val == Mul(a, cos(beta))
        squared == Sub(Add(Powi2(b), Mul(Powi2(a), Powi2(cos(beta)))), Powi2(a))
    IN  return_solutions(val, squared)

\* T::acos(x).ok_or(InvalidInput)
AcosOrInvalid(x) ==
    LET ok_or(r) == IF r = None THEN InvalidInput ELSE Ok(r[1]) IN ok_or(acos(x))

\* alpha_from_abc with the sign of a^2 lost
alpha_from_abc_unsigned(a, b, c) ==
    AcosOrInvalid(Div(Add(Add(Powi2(a), Powi2(b)), Powi2(c)), Mul(Mul(I(2), b), c)))

alpha_from_abc(a, b, c) ==
    AcosOrInvalid(Div(Add(Add(Neg(Powi2(a)), Powi2(b)), Powi2(c)), Mul(Mul(I(2), b), c)))

beta_from_abc(a, b, c) ==
    AcosOrInvalid(Div(Add(Sub(Powi2(a), Powi2(b)), Powi2(c)), Mul(Mul(I(2), a), c)))

\* gamma_from_abc with the factor 2 of the denominator left out
gamma_from_abc_undoubled(a, b, c) ==
    AcosOrInvalid(Div(Sub(Add(Powi2(a), Powi2(b)), Powi2(c)), Mul(a, b)))

gamma_from_abc(a, b, c) ==
    AcosOrInvalid(Div(Sub(Add(Powi2(a), Powi2(b)), Powi2(c)), Mul(Mul(I(2), a), b)))

\* ------------------------------------------------------------------------
\* Constructors (src/src/shapes/triangle.rs)
\* ------------------------------------------------------------------------
NoTriangle == [variant |-> "none"]

\* Result<Self, InvalidTriangleError>
OkTri(t) == [res |-> "Ok", tri |-> t]

ErrTri(e) == [res |-> e, tri |-> NoTriangle]

\* x <= T::ZERO || !x.is_finite()
BadLength(x) == Le(x, ZERO) \/ ~is_finite(x)

\* x <= T::ZERO || x >= T::PI || !x.is_finite()
BadAngle(x) == ALe(x, ZERO_rad) \/ AGe(x, PI) \/ ~a_is_finite(x)

\* the tangent test with >= in place of >
TangentExceeded_or_reached(ratio, angle) ==
    LET tangent_angle == asin(ratio)
    IN  tangent_angle # None /\ AGe(angle, tangent_angle[1])

\* the tangent test rejecting a ratio that has no asin
TangentExceeded_or_undefined(ratio, angle) ==
    LET tangent_angle == asin(ratio)
    IN  tangent_angle = None \/ AGt(angle, tangent_angle[1])

\* if let Some(tangent_angle) = ratio.asin() { if angle > tangent_angle {..} }
TangentExceeded(ratio, angle) ==
    LET tangent_angle == asin(ratio)
    IN  tangent_angle # None /\ AGt(angle, tangent_angle[1])

\* ------------------------------------------------------------------------
\* PointN (src/src/vector/mod.rs) and the point-based Triangle
\* ------------------------------------------------------------------------
\* VectorN - VectorN, component by component
VSub(p, q) == [i \in 1..Len(p) |-> Sub(p[i], q[i])]

\* the derived PartialEq of VectorN: equal in every component
VEq(p, q) == \A i \in 1..Len(p) : Eq(p[i], q[i])

\* VectorN::is_finite
v_is_finite(p) == \A i \in 1..Len(p) : is_finite(p[i])

\* the fold of the squares of the components from T::ZERO
RECURSIVE SumOfSquares(_, _)
SumOfSquares(v, n) == IF n = 0 THEN ZERO ELSE Add(SumOfSquares(v, n - 1), Powi2(v[n]))

\* VectorN::magnitude
magnitude(v) == sqrt(SumOfSquares(v, Len(v)))

\* Triangle::new
Triangle_new(A, B, C) ==
    IF VEq(A, B) \/ VEq(B, C) \/ VEq(C, A)
       \/ ~v_is_finite(A) \/ ~v_is_finite(B) \/ ~v_is_finite(C)
    THEN ErrTri("InvalidLength")
    ELSE OkTri([variant |-> "Triangle", A |-> A, B |-> B, C |-> C])

\* ------------------------------------------------------------------------
\* The constructors of the abstract triangles
\* ------------------------------------------------------------------------
AbstractTriangle_abc_new(a, b, c) ==
    IF \/ Lt(Add(a, b), c) \/ Lt(Add(a, c), b) \/ Lt(Add(b, c), a)
       \/ Le(a, ZERO) \/ Le(b, ZERO) \/ Le(c, ZERO)
       \/ ~is_finite(a) \/ ~is_finite(b) \/ ~is_finite(c)
    THEN ErrTri("InvalidLength")
    ELSE OkTri([variant |-> "abc", a |-> a, b |-> b, c |-> c])

AbstractTriangle_ab_alpha_new(a, b, alpha) ==
    IF BadLength(a) \/ BadLength(b) THEN ErrTri("InvalidLength")
    ELSE IF BadAngle(alpha) THEN ErrTri("InvalidAngle")
    ELSE IF TangentExceeded(Div(a, b), alpha) THEN ErrTri("AngleTooLarge")
    ELSE OkTri([variant |-> "ab_alpha", a |-> a, b |-> b, alpha |-> alpha])

AbstractTriangle_ac_alpha_new(a, c, alpha) ==
    IF BadLength(a) \/ BadLength(c) THEN ErrTri("InvalidLength")
    ELSE IF BadAngle(alpha) THEN ErrTri("InvalidAngle")
    ELSE IF TangentExceeded(Div(a, c), alpha) THEN ErrTri("AngleTooLarge")
    ELSE OkTri([variant |-> "ac_alpha", a |-> a, c |-> c, alpha |-> alpha])

\* bcα::new with the angle checked before the lengths
AbstractTriangle_bc_alpha_new_angle_first(b, c, alpha) ==
    IF BadAngle(alpha) THEN ErrTri("InvalidAngle")
    ELSE IF BadLength(b) \/ BadLength(c) THEN ErrTri("InvalidLength")
    ELSE OkTri([variant |-> "bc_alpha", b |-> b, c |-> c, alpha |-> alpha])

AbstractTriangle_bc_alpha_new(b, c, alpha) ==
    IF BadLength(b) \/ BadLength(c) THEN ErrTri("InvalidLength")
    ELSE IF BadAngle(alpha) THEN ErrTri("InvalidAngle")
    ELSE OkTri([variant |-> "bc_alpha", b |-> b, c |-> c, alpha |-> alpha])

AbstractTriangle_ab_beta_new(a, b, beta) ==
    IF BadLength(a) \/ BadLength(b) THEN ErrTri("InvalidLength")
    ELSE IF BadAngle(beta) THEN ErrTri("InvalidAngle")
    ELSE IF TangentExceeded(Div(b, a), beta) THEN ErrTri("AngleTooLarge")
    ELSE OkTri([variant |-> "ab_beta", a |-> a, b |-> b, beta |-> beta])

AbstractTriangle_ac_beta_new(a, c, beta) ==
    IF BadLength(a) \/ BadLength(c) THEN ErrTri("InvalidLength")
    ELSE IF BadAngle(beta) THEN ErrTri("InvalidAngle")
    ELSE OkTri([variant |-> "ac_beta", a |-> a, c |-> c, beta |-> beta])

AbstractTriangle_bc_beta_new(b, c, beta) ==
    IF BadLength(b) \/ BadLength(c) THEN ErrTri("InvalidLength")
    ELSE IF BadAngle(beta) THEN ErrTri("InvalidAngle")
    ELSE IF TangentExceeded(Div(b, c), beta) THEN ErrTri("AngleTooLarge")
    ELSE OkTri([variant |-> "bc_beta", b |-> b, c |-> c, beta |-> beta])

\* AbstractTriangle_ab_gamma::new storing the two sides in each other's field
AbstractTriangle_ab_gamma_new_swapped(a, b, gamma) ==
    IF BadLength(a) \/ BadLength(b) THEN ErrTri("InvalidLength")
    ELSE IF BadAngle(gamma) THEN ErrTri("InvalidAngle")
    ELSE OkTri([variant |-> "ab_gamma", a |-> b, b |-> a, gamma |-> gamma])

AbstractTriangle_ab_gamma_new(a, b, gamma) ==
    IF BadLength(a) \/ BadLength(b) THEN ErrTri("InvalidLength")
    ELSE IF BadAngle(gamma) THEN ErrTri("InvalidAngle")
    ELSE OkTri([variant |-> "ab_gamma", a |-> a, b |-> b, gamma |-> gamma])

AbstractTriangle_ac_gamma_new(a, c, gamma) ==
    IF BadLength(a) \/ BadLength(c) THEN ErrTri("InvalidLength")
    ELSE IF BadAngle(gamma) THEN ErrTri("InvalidAngle")
    ELSE IF TangentExceeded(Div(c, a), gamma) THEN ErrTri("AngleTooLarge")
    ELSE OkTri([variant |-> "ac_gamma", a |-> a, c |-> c, gamma |-> gamma])

AbstractTriangle_bc_gamma_new(b, c, gamma) ==
    IF BadLength(b) \/ BadLength(c) THEN ErrTri("InvalidLength")
    ELSE IF BadAngle(gamma) THEN ErrTri("InvalidAngle")
    ELSE IF TangentExceeded(Div(c, b), gamma) THEN ErrTri("AngleTooLarge")
    ELSE OkTri([variant |-> "bc_gamma", b |-> b, c |-> c, gamma |-> gamma])

AbstractTriangle_a_alpha_beta_new(a, alpha, beta) ==
    IF BadLength(a) THEN ErrTri("InvalidLength")
    ELSE IF BadAngle(alpha) THEN ErrTri("InvalidAngle")
    ELSE IF BadAngle(beta) THEN ErrTri("InvalidAngle")
    ELSE IF AGe(AAdd(alpha, beta), PI) THEN ErrTri("InvalidAngle")
    ELSE OkTri([variant |-> "a_alpha_beta", a |-> a, alpha |-> alpha, beta |-> beta])

AbstractTriangle_b_alpha_beta_new(b, alpha, beta) ==
    IF BadLength(b) THEN ErrTri("InvalidLength")
    ELSE IF BadAngle(alpha) THEN ErrTri("InvalidAngle")
    ELSE IF BadAngle(beta) THEN ErrTri("InvalidAngle")
    ELSE IF AGe(AAdd(alpha, beta), PI) THEN ErrTri("InvalidAngle")
    ELSE OkTri([variant |-> "b_alpha_beta", b |-> b, alpha |-> alpha, beta |-> beta])

AbstractTriangle_c_alpha_beta_new(c, alpha, beta) ==
    IF BadLength(c) THEN ErrTri("InvalidLength")
    ELSE IF BadAngle(alpha) THEN ErrTri("InvalidAngle")
    ELSE IF BadAngle(beta) THEN ErrTri("InvalidAngle")
    ELSE IF AGe(AAdd(alpha, beta), PI) THEN ErrTri("InvalidAngle")
    ELSE OkTri([variant |-> "c_alpha_beta", c |-> c, alpha |-> alpha, beta |-> beta])

AbstractTriangle_a_alpha_gamma_new(a, alpha, gamma) ==
    IF BadLength(a) THEN ErrTri("InvalidLength")
    ELSE IF BadAngle(alpha) THEN ErrTri("InvalidAngle")
    ELSE IF BadAngle(gamma) THEN ErrTri("InvalidAngle")
    ELSE IF AGe(AAdd(alpha, gamma), PI) THEN ErrTri("InvalidAngle")
    ELSE OkTri([variant |-> "a_alpha_gamma", a |-> a, alpha |-> alpha, gamma |-> gamma])

\* the constructor with the two angles stored in each other's field
AbstractTriangle_b_alpha_gamma_new_misbound(b, alpha, gamma) ==
    IF BadLength(b) THEN ErrTri("InvalidLength")
    ELSE IF BadAngle(alpha) THEN ErrTri("InvalidAngle")
    ELSE IF BadAngle(gamma) THEN ErrTri("InvalidAngle")
    ELSE IF AGe(AAdd(alpha, gamma), PI) THEN ErrTri("InvalidAngle")
    ELSE OkTri([variant |-> "b_alpha_gamma", b |-> b, alpha |-> gamma, gamma |-> alpha])

AbstractTriangle_b_alpha_gamma_new(b, alpha, gamma) ==
    IF BadLength(b) THEN ErrTri("InvalidLength")
    ELSE IF BadAngle(alpha) THEN ErrTri("InvalidAngle")
    ELSE IF BadAngle(gamma) THEN ErrTri("InvalidAngle")
    ELSE IF AGe(AAdd(alpha, gamma), PI) THEN ErrTri("InvalidAngle")
    ELSE OkTri([variant |-> "b_alpha_gamma", b |-> b, alpha |-> alpha, gamma |-> gamma])

AbstractTriangle_c_alpha_gamma_new(c, alpha, gamma) ==
    IF BadLength(c) THEN ErrTri("InvalidLength")
    ELSE IF BadAngle(alpha) THEN ErrTri("InvalidAngle")
    ELSE IF BadAngle(gamma) THEN ErrTri("InvalidAngle")
    ELSE IF AGe(AAdd(alpha, gamma), PI) THEN ErrTri("InvalidAngle")
    ELSE OkTri([variant |-> "c_alpha_gamma", c |-> c, alpha |-> alpha, gamma |-> gamma])

AbstractTriangle_a_beta_gamma_new(a, beta, gamma) ==
    IF BadLength(a) THEN ErrTri("InvalidLength")
    ELSE IF BadAngle(beta) THEN ErrTri("InvalidAngle")
    ELSE IF BadAngle(gamma) THEN ErrTri("InvalidAngle")
    ELSE IF AGe(AAdd(beta, gamma), PI) THEN ErrTri("InvalidAngle")
    ELSE OkTri([variant |-> "a_beta_gamma", a |-> a, beta |-> beta, gamma |-> gamma])

AbstractTriangle_b_beta_gamma_new(b, beta, gamma) ==
    IF BadLength(b) THEN ErrTri("InvalidLength")
    ELSE IF BadAngle(beta) THEN ErrTri("InvalidAngle")
    ELSE IF BadAngle(gamma) THEN ErrTri("InvalidAngle")
    ELSE IF AGe(AAdd(beta, gamma), PI) THEN ErrTri("InvalidAngle")
    ELSE OkTri([variant |-> "b_beta_gamma", b |-> b, beta |-> beta, gamma |-> gamma])

\* the constructor with the angle sum tested by > in place of >=
AbstractTriangle_c_beta_gamma_new_sum_reached(c, beta, gamma) ==
    IF BadLength(c) THEN ErrTri("InvalidLength")
    ELSE IF BadAngle(beta) THEN ErrTri("InvalidAngle")
    ELSE IF BadAngle(gamma) THEN ErrTri("InvalidAngle")
    ELSE IF AGt(AAdd(beta, gamma), PI) THEN ErrTri("InvalidAngle")
    ELSE OkTri([variant |-> "c_beta_gamma", c |-> c, beta |-> beta, gamma |-> gamma])

AbstractTriangle_c_beta_gamma_new(c, beta, gamma) ==
    IF BadLength(c) THEN ErrTri("InvalidLength")
    ELSE IF BadAngle(beta) THEN ErrTri("InvalidAngle")
    ELSE IF BadAngle(gamma) THEN ErrTri("InvalidAngle")
    ELSE IF AGe(AAdd(beta, gamma), PI) THEN ErrTri("InvalidAngle")
    ELSE OkTri([variant |-> "c_beta_gamma", c |-> c, beta |-> beta, gamma |-> gamma])

\* ------------------------------------------------------------------------
\* MaybeTwo and the accessors of AbstractTriangle
\* ------------------------------------------------------------------------
\* the value of an accessor whose expect(..) failed
PANIC == <<"panic">>

\* Result::expect
Expect(r) == IF r.ok THEN r.v ELSE PANIC

\* MaybeTwo::first for (T, Option<T>)
first(solution) == IF solution = PANIC THEN PANIC ELSE solution[1]

\* chain_solution dropping solution.1
chain_solution_pair_first_only(one, two) ==
    IF one = PANIC THEN PANIC ELSE <<one, None>>

\* the pair (one, two) chain_solution builds; a panic inside f unwinds
chain_solution_pair(one, two) ==
    IF one = PANIC \/ (two # None /\ two[1] = PANIC) THEN PANIC ELSE <<one, two>>

\* (f(solution.0), solution.1.map(f))
chain_solution(solution, f(_)) ==
    IF solution = PANIC THEN PANIC
    ELSE chain_solution_pair(f(solution[1]),
                             IF solution[2] = None THEN None
                             ELSE Some(f(solution[2][1])))

\* law_of_cosines::alpha_from_abc(a, b, c).expect(..)
alpha_of(a, b, c) ==
    IF a = PANIC \/ b = PANIC \/ c = PANIC THEN PANIC ELSE Expect(alpha_from_abc(a, b, c))

beta_of(a, b, c) ==
    IF a = PANIC \/ b = PANIC \/ c = PANIC THEN PANIC ELSE Expect(beta_from_abc(a, b, c))

gamma_of(a, b, c) ==
    IF a = PANIC \/ b = PANIC \/ c = PANIC THEN PANIC ELSE Expect(gamma_from_abc(a, b, c))

\* triangle_area(a, b, c).expect(..)
area_of(a, b, c) ==
    IF a = PANIC \/ b = PANIC \/ c = PANIC THEN PANIC ELSE Expect(triangle_area(a, b, c))

\* the altitude with the factor 2 left out
altitude_of_half(area_, side) ==
    IF area_ = PANIC \/ side = PANIC THEN PANIC ELSE Div(area_, side)

\* the altitude with the side multiplied in place of divided
altitude_of_product(area_, side) ==
    IF area_ = PANIC \/ side = PANIC THEN PANIC ELSE Mul(Mul(I(2), area_), side)

\* T::i(2) * area / side
altitude_of(area_, side) ==
    IF area_ = PANIC \/ side = PANIC THEN PANIC ELSE Div(Mul(I(2), area_), side)

\* the third angle with the second known angle left out
ThirdAngle_of_one(x, y) == ASub(PI, x)

\* T::PI - (x + y)
ThirdAngle(x, y) == ASub(PI, AAdd(x, y))

SSA == {"ab_alpha", "ac_alpha", "ab_beta", "bc_beta", "ac_gamma", "bc_gamma"}

SAS == {"bc_alpha", "ac_beta", "ab_gamma"}

AAS == {"a_alpha_beta", "b_alpha_beta", "c_alpha_beta",
        "a_alpha_gamma", "b_alpha_gamma", "c_alpha_gamma",
        "a_beta_gamma", "b_beta_gamma", "c_beta_gamma"}

Variants == {"abc"} \cup SSA \cup SAS \cup AAS

length_a(t) ==
    CASE t.variant \in {"abc", "ab_alpha", "ac_alpha", "ab_beta", "ac_beta", "ab_gamma",
                        "ac_gamma", "a_alpha_beta", "a_alpha_gamma", "a_beta_gamma"} -> t.a
      [] t.variant = "Triangle" -> magnitude(VSub(t.B, t.C))
      [] t.variant = "bc_alpha" -> Expect(a_from_bc_alpha(t.b, t.c, t.alpha))
      [] t.variant = "bc_beta" -> Expect(a_from_bc_beta(t.b, t.c, t.beta))
      [] t.variant = "bc_gamma" -> Expect(a_from_bc_gamma(t.b, t.c, t.gamma))
      [] t.variant = "b_alpha_beta" -> Expect(a_from_b_alpha_beta(t.b, t.alpha, t.beta))
      [] t.variant = "c_alpha_beta" ->
            Expect(a_from_c_alpha_gamma(t.c, t.alpha, ThirdAngle(t.alpha, t.beta)))
      [] t.variant = "b_alpha_gamma" ->
            Expect(a_from_b_alpha_beta(t.b, t.alpha, ThirdAngle(t.alpha, t.gamma)))
      [] t.variant = "c_alpha_gamma" -> Expect(a_from_c_alpha_gamma(t.c, t.alpha, t.gamma))
      [] t.variant = "b_beta_gamma" ->
            Expect(a_from_b_alpha_beta(t.b, ThirdAngle(t.beta, t.gamma), t.beta))
      [] t.variant = "c_beta_gamma" ->
            Expect(a_from_c_alpha_gamma(t.c, ThirdAngle(t.beta, t.gamma), t.gamma))

length_b(t) ==
    CASE t.variant \in {"abc", "ab_alpha", "bc_alpha", "ab_beta", "bc_beta", "ab_gamma",
                        "bc_gamma", "b_alpha_beta", "b_alpha_gamma", "b_beta_gamma"} -> t.b
      [] t.variant = "Triangle" -> magnitude(VSub(t.A, t.C))
      [] t.variant = "ac_alpha" -> Expect(b_from_ac_alpha(t.a, t.c, t.alpha))
      [] t.variant = "ac_beta" -> Expect(b_from_ac_beta(t.a, t.c, t.beta))
      [] t.variant = "ac_gamma" -> Expect(b_from_ac_gamma(t.a, t.c, t.gamma))
      [] t.variant = "a_alpha_beta" -> Expect(b_from_a_alpha_beta(t.a, t.alpha, t.beta))
      [] t.variant = "c_alpha_beta" ->
            Expect(b_from_c_beta_gamma(t.c, t.beta, ThirdAngle(t.alpha, t.beta)))
      [] t.variant = "a_alpha_gamma" ->
            Expect(b_from_a_alpha_beta(t.a, t.alpha, ThirdAngle(t.alpha, t.gamma)))
      [] t.variant = "c_alpha_gamma" ->
            Expect(b_from_c_beta_gamma(t.c, ThirdAngle(t.alpha, t.gamma), t.gamma))
      [] t.variant = "a_beta_gamma" ->
            Expect(b_from_a_alpha_beta(t.a, ThirdAngle(t.beta, t.gamma), t.beta))
      [] t.variant = "c_beta_gamma" -> Expect(b_from_c_beta_gamma(t.c, t.beta, t.gamma))

length_c(t) ==
    CASE t.variant \in {"abc", "ac_alpha", "bc_alpha", "ac_beta", "bc_beta", "ac_gamma",
                        "bc_gamma", "c_alpha_beta", "c_alpha_gamma", "c_beta_gamma"} -> t.c
      [] t.variant = "Triangle" -> magnitude(VSub(t.A, t.B))
      [] t.variant = "ab_alpha" -> Expect(c_from_ab_alpha(t.a, t.b, t.alpha))
      [] t.variant = "ab_beta" -> Expect(c_from_ab_beta(t.a, t.b, t.beta))
      [] t.variant = "ab_gamma" -> Expect(c_from_ab_gamma(t.a, t.b, t.gamma))
      [] t.variant = "a_alpha_beta" ->
            Expect(c_from_a_alpha_gamma(t.a, t.alpha, ThirdAngle(t.alpha, t.beta)))
      [] t.variant = "b_alpha_beta" ->
            Expect(c_from_b_beta_gamma(t.b, t.beta, ThirdAngle(t.alpha, t.beta)))
      [] t.variant = "a_alpha_gamma" -> Expect(c_from_a_alpha_gamma(t.a, t.alpha, t.gamma))
      [] t.variant = "b_alpha_gamma" ->
            Expect(c_from_b_beta_gamma(t.b, ThirdAngle(t.alpha, t.gamma), t.gamma))
      [] t.variant = "a_beta_gamma" ->
            Expect(c_from_a_alpha_gamma(t.a, ThirdAngle(t.beta, t.gamma), t.gamma))
      [] t.variant = "b_beta_gamma" -> Expect(c_from_b_beta_gamma(t.b, t.beta, t.gamma))

\* in the accessors below a, b and c stand for self.length_a(), self.length_b()
\* and self.length_c() of the record, taken where the variant's code calls them
angle_alpha(t) ==
    LET Alpha(a, b, c) ==
            CASE t.variant \in {"ab_alpha", "ac_alpha", "bc_alpha", "a_alpha_beta",
                                "b_alpha_beta", "c_alpha_beta", "a_alpha_gamma",
                                "b_alpha_gamma", "c_alpha_gamma"} -> t.alpha
              [] t.variant = "abc" -> Expect(alpha_from_abc(t.a, t.b, t.c))
              [] t.variant = "Triangle" -> alpha_of(a, b, c)
              [] t.variant = "ab_beta" ->
                    chain_solution(c, LAMBDA x : alpha_of(t.a, t.b, x))
              [] t.variant = "ac_beta" -> alpha_of(t.a, b, t.c)
              [] t.variant = "bc_beta" ->
                    chain_solution(a, LAMBDA x : alpha_of(x, t.b, t.c))
              [] t.variant = "ab_gamma" -> alpha_of(t.a, t.b, c)
              [] t.variant = "ac_gamma" ->
                    chain_solution(b, LAMBDA x : alpha_of(t.a, x, t.c))
              [] t.variant = "bc_gamma" ->
                    chain_solution(a, LAMBDA x : alpha_of(x, t.b, t.c))
              [] t.variant \in {"a_beta_gamma", "b_beta_gamma", "c_beta_gamma"}
                    -> ThirdAngle(t.beta, t.gamma)
    IN  Alpha(length_a(t), length_b(t), length_c(t))

angle_beta(t) ==
    LET Beta(a, b, c) ==
            CASE t.variant \in {"ab_beta", "ac_beta", "bc_beta", "a_alpha_beta",
                                "b_alpha_beta", "c_alpha_beta", "a_beta_gamma",
                                "b_beta_gamma", "c_beta_gamma"} -> t.beta
              [] t.variant = "abc" -> Expect(beta_from_abc(t.a, t.b, t.c))
              [] t.variant = "Triangle" -> beta_of(a, b, c)
              [] t.variant = "ab_alpha" ->
                    chain_solution(c, LAMBDA x : beta_of(t.a, t.b, x))
              [] t.variant = "ac_alpha" ->
                    chain_solution(b, LAMBDA x : beta_of(t.a, x, t.c))
              [] t.variant = "bc_alpha" -> beta_of(a, t.b, t.c)
              [] t.variant = "ab_gamma" -> beta_of(t.a, t.b, c)
              [] t.variant = "ac_gamma" ->
                    chain_solution(b, LAMBDA x : beta_of(t.a, x, t.c))
              [] t.variant = "bc_gamma" ->
                    chain_solution(a, LAMBDA x : beta_of(x, t.b, t.c))
              [] t.variant \in {"a_alpha_gamma", "b_alpha_gamma", "c_alpha_gamma"}
                    -> ThirdAngle(t.alpha, t.gamma)
    IN  Beta(length_a(t), length_b(t), length_c(t))

angle_gamma(t) ==
    LET Gamma(a, b, c) ==
            CASE t.variant \in {"ab_gamma", "ac_gamma", "bc_gamma", "a_alpha_gamma",
                                "b_alpha_gamma", "c_alpha_gamma", "a_beta_gamma",
                                "b_beta_gamma", "c_beta_gamma"} -> t.gamma
              [] t.variant = "abc" -> Expect(gamma_from_abc(t.a, t.b, t.c))
              [] t.variant = "Triangle" -> gamma_of(a, b, c)
              [] t.variant = "ab_alpha" ->
                    chain_solution(c, LAMBDA x : gamma_of(t.a, t.b, x))
              [] t.variant = "ac_alpha" ->
                    chain_solution(b, LAMBDA x : gamma_of(t.a, x, t.c))
              [] t.variant = "bc_alpha" -> gamma_of(a, t.b, t.c)
              [] t.variant = "ab_beta" ->
                    chain_solution(c, LAMBDA x : gamma_of(t.a, t.b, x))
              [] t.variant = "ac_beta" -> gamma_of(t.a, b, t.c)
              [] t.variant = "bc_beta" ->
                    chain_solution(a, LAMBDA x : gamma_of(x, t.b, t.c))
              [] t.variant \in {"a_alpha_beta", "b_alpha_beta", "c_alpha_beta"}
                    -> ThirdAngle(t.alpha, t.beta)
    IN  Gamma(length_a(t), length_b(t), length_c(t))

area(t) ==
    LET Area(a, b, c) ==
            CASE t.variant \in {"ab_alpha", "ab_beta"} ->
                    chain_solution(c, LAMBDA x : area_of(a, b, x))
              [] t.variant \in {"ac_alpha", "ac_gamma"} ->
                    chain_solution(b, LAMBDA x : area_of(a, x, c))
              [] t.variant \in {"bc_beta", "bc_gamma"} ->
                    chain_solution(a, LAMBDA x : area_of(x, b, c))
              [] OTHER -> area_of(a, b, c)
    IN  Area(length_a(t), length_b(t), length_c(t))

\* area_ stands for self.area(), which the variants with one solution call
altitude_a(t) ==
    LET Altitude(a, b, c, area_) ==
            CASE t.variant \in {"ab_alpha", "ab_beta"} ->
                    chain_solution(c, LAMBDA x : altitude_of(area_of(a, b, x), a))
              [] t.variant \in {"ac_alpha", "ac_gamma"} ->
                    chain_solution(b, LAMBDA x : altitude_of(area_of(a, x, c), a))
              [] t.variant \in {"bc_beta", "bc_gamma"} ->
                    altitude_of(area_of(first(a), b, c), first(a))
              [] OTHER -> altitude_of(area_, a)
    IN  Altitude(length_a(t), length_b(t), length_c(t), area(t))

altitude_b(t) ==
    LET Altitude(a, b, c, area_) ==
            CASE t.variant \in {"ab_alpha", "ab_beta"} ->
                    chain_solution(c, LAMBDA x : altitude_of(area_of(a, b, x), b))
              [] t.variant \in {"ac_alpha", "ac_gamma"} ->
                    altitude_of(area_of(a, first(b), c), first(b))
              [] t.variant \in {"bc_beta", "bc_gamma"} ->
                    chain_solution(a, LAMBDA x : altitude_of(area_of(x, b, c), b))
              [] OTHER -> altitude_of(area_, b)
    IN  Altitude(length_a(t), length_b(t), length_c(t), area(t))

altitude_c(t) ==
    LET Altitude(a, b, c, area_) ==
            CASE t.variant \in {"ab_alpha", "ab_beta"} ->
                    altitude_of(area_of(a, b, first(c)), first(c))
              [] t.variant \in {"ac_alpha", "ac_gamma"} ->
                    chain_solution(b, LAMBDA x : altitude_of(area_of(a, x, c), c))
              [] t.variant \in {"bc_beta", "bc_gamma"} ->
                    chain_solution(a, LAMBDA x : altitude_of(area_of(x, b, c), c))
              [] OTHER -> altitude_of(area_, c)
    IN  Altitude(length_a(t), length_b(t), length_c(t), area(t))

\* the accessors declared with the solution type (T, Option<T>)
Dual(variant) ==
    CASE variant \in {"ab_alpha", "ab_beta"} ->
            {"length_c", "area", "altitude_a", "altitude_b"}
            \cup (IF variant = "ab_alpha" THEN {"angle_beta", "angle_gamma"}
                  ELSE {"angle_alpha", "angle_gamma"})
      [] variant \in {"ac_alpha", "ac_gamma"} ->
            {"length_b", "area", "altitude_a", "altitude_c"}
            \cup (IF variant = "ac_alpha" THEN {"angle_beta", "angle_gamma"}
                  ELSE {"angle_alpha", "angle_beta"})
      [] variant \in {"bc_beta", "bc_gamma"} ->
            {"length_a", "area", "altitude_b", "altitude_c"}
            \cup (IF variant = "bc_beta" THEN {"angle_alpha", "angle_gamma"}
                  ELSE {"angle_alpha", "angle_beta"})
      [] OTHER -> {}

Accessors == {"length_a", "length_b", "length_c", "angle_alpha", "angle_beta",
              "angle_gamma", "area", "altitude_a", "altitude_b", "altitude_c"}

\* both with the second value of a pair dropped
both_first_only(variant, accessor, v) ==
    IF accessor \in Dual(variant) THEN <<v[1], None>> ELSE <<v, None>>

\* MaybeTwo::both: T gives (self, None), (T, Option<T>) gives self
both(variant, accessor, v) == IF accessor \in Dual(variant) THEN v ELSE <<v, None>>

\* count that never looks at the second value
count_first_only(variant, accessor, v) == 1

\* count with the plain value T counted twice
count_plain_twice(variant, accessor, v) ==
    IF accessor \in Dual(variant) THEN (IF v[2] # None THEN 2 ELSE 1) ELSE 2

\* MaybeTwo::count
count(variant, accessor, v) ==
    IF accessor \in Dual(variant) THEN (IF v[2] # None THEN 2 ELSE 1) ELSE 1

\* MaybeTwo::any_is(|s| s == x)
any_is(variant, accessor, v, x) ==
    IF accessor \in Dual(variant)
    THEN v[1] = x \/ (v[2] # None /\ v[2][1] = x)
    ELSE v = x

\* map that drops the second value of a pair
map_first_only(variant, accessor, v, f) ==
    IF accessor \in Dual(variant) THEN <<f[v[1]], None>> ELSE f[v]

\* MaybeTwo::map: f(self) for T, (f(self.0), self.1.map(f)) for (T, Option<T>);
\* f is a function on the values held
map(variant, accessor, v, f) ==
    IF accessor \in Dual(variant)
    THEN <<f[v[1]], IF v[2] = None THEN None ELSE Some(f[v[2][1]])>>
    ELSE f[v]

\* any_is that never looks at the second value
any_is_f_first_only(variant, accessor, v, f) ==
    IF accessor \in Dual(variant) THEN f[v[1]] ELSE f[v]

\* MaybeTwo::any_is with the closure f: f(self) for T,
\* f(self.0) || self.1.is_some_and(f) for (T, Option<T>)
any_is_f(variant, accessor, v, f) ==
    IF accessor \in Dual(variant)
    THEN f[v[1]] \/ (v[2] # None /\ f[v[2][1]])
    ELSE f[v]

\* ------------------------------------------------------------------------
\* Inputs
\* ------------------------------------------------------------------------
GoodLengths == {I(n) : n \in 1..MaxSide}

BadLengths == {ZERO, I(-1), PosInf, NaN}

Lengths == GoodLengths \cup BadLengths

\* the angles of (0, PI) whose sine and cosine are multiples of 1/5
GoodAngles == {<<0, 16, 25>>, <<0, 9, 25>>, <<0, 0, 1>>, <<0, -9, 25>>, <<0, -16, 25>>}

BadAngles == {ZERO_rad, PI, <<-1, -9, 25>>, <<1, 16, 25>>, ANaN, APosInf}

Angles == GoodAngles \cup BadAngles

\* the points of the plane on the two rows y = 0 and y = MaxCoord, and two
\* points with a coordinate that is not finite
Points ==
    {<<I(x), I(y)>> : x \in 0..MaxCoord, y \in {0, MaxCoord}}
        \cup {<<NaN, ZERO>>, <<ZERO, PosInf>>}

\* value and discriminant of return_solutions: the halves up to MaxSide / 2 and
\* their squares, a negative discriminant and the non-finite values
Values == {Rat(n, 2) : n \in -MaxSide..MaxSide} \cup {NaN, PosInf, NegInf}

Squares == {Powi2(Rat(n, 2)) : n \in 0..MaxSide} \cup {I(-1), NaN, PosInf}

\* s(s-a)(s-b)(s-c)
HeronProduct(a, b, c) ==
    LET A2(s) == Mul(Mul(Mul(s, Sub(s, a)), Sub(s, b)), Sub(s, c))
    IN  A2(Mul(F_0_5, Add(Add(a, b), c)))

\* the records whose accessors take rational square roots only: the accessors
\* are called on these. p is the side opposite the angle in the
\* side-side-angle variants
Representable(t) ==
    CASE t.variant = "abc" -> IsSquare(HeronProduct(t.a, t.b, t.c))
      [] t.variant = "Triangle" ->
            /\ IsSquare(SumOfSquares(VSub(t.B, t.C), Len(t.B)))
            /\ IsSquare(SumOfSquares(VSub(t.A, t.C), Len(t.A)))
            /\ IsSquare(SumOfSquares(VSub(t.A, t.B), Len(t.A)))
            /\ IsSquare(HeronProduct(magnitude(VSub(t.B, t.C)), magnitude(VSub(t.A, t.C)),
                                     magnitude(VSub(t.A, t.B))))
      [] t.variant \in SSA \cup SAS ->
            LET x == IF t.variant \in {"bc_alpha", "bc_beta", "bc_gamma"} THEN t.b ELSE t.a
                y == IF t.variant \in {"ab_alpha", "ab_beta", "ab_gamma"} THEN t.b ELSE t.c
                angle == IF t.variant \in {"ab_alpha", "ac_alpha", "bc_alpha"} THEN t.alpha
                         ELSE IF t.variant \in {"ab_beta", "ac_beta", "bc_beta"} THEN t.beta
                         ELSE t.gamma
                xOpposite == t.variant \in {"ab_alpha", "ac_alpha", "bc_beta"}
                p == IF xOpposite THEN x ELSE y
                q == IF xOpposite THEN y ELSE x
            IN  IF t.variant \in SAS
                THEN IsSquare(Sub(Add(Powi2(x), Powi2(y)),
                                  Mul(Mul(Mul(I(2), x), y), cos(angle))))
                ELSE IsSquare(Sub(Powi2(p), Mul(Powi2(q), Powi2(sin(angle)))))
      [] OTHER -> TRUE

\* ------------------------------------------------------------------------
\* abstract_triangle! and the solved triangles of the tests
\* ------------------------------------------------------------------------
\* abstract_triangle!{ name: value, .. }: m maps the three names to the values
abstract_triangle(m) ==
    CASE DOMAIN m = {"a", "b", "c"} ->
            AbstractTriangle_abc_new(m.a, m.b, m.c)
      [] DOMAIN m = {"a", "b", "alpha"} ->
            AbstractTriangle_ab_alpha_new(m.a, m.b, m.alpha)
      [] DOMAIN m = {"a", "c", "alpha"} ->
            AbstractTriangle_ac_alpha_new(m.a, m.c, m.alpha)
      [] DOMAIN m = {"b", "c", "alpha"} ->
            AbstractTriangle_bc_alpha_new(m.b, m.c, m.alpha)
      [] DOMAIN m = {"a", "b", "beta"} ->
            AbstractTriangle_ab_beta_new(m.a, m.b, m.beta)
      [] DOMAIN m = {"a", "c", "beta"} ->
            AbstractTriangle_ac_beta_new(m.a, m.c, m.beta)
      [] DOMAIN m = {"b", "c", "beta"} ->
            AbstractTriangle_bc_beta_new(m.b, m.c, m.beta)
      [] DOMAIN m = {"a", "b", "gamma"} ->
            AbstractTriangle_ab_gamma_new(m.a, m.b, m.gamma)
      [] DOMAIN m = {"a", "c", "gamma"} ->
            AbstractTriangle_ac_gamma_new(m.a, m.c, m.gamma)
      [] DOMAIN m = {"b", "c", "gamma"} ->
            AbstractTriangle_bc_gamma_new(m.b, m.c, m.gamma)
      [] DOMAIN m = {"a", "alpha", "beta"} ->
            AbstractTriangle_a_alpha_beta_new(m.a, m.alpha, m.beta)
      [] DOMAIN m = {"b", "alpha", "beta"} ->
            AbstractTriangle_b_alpha_beta_new(m.b, m.alpha, m.beta)
      [] DOMAIN m = {"c", "alpha", "beta"} ->
            AbstractTriangle_c_alpha_beta_new(m.c, m.alpha, m.beta)
      [] DOMAIN m = {"a", "alpha", "gamma"} ->
            AbstractTriangle_a_alpha_gamma_new(m.a, m.alpha, m.gamma)
      [] DOMAIN m = {"b", "alpha", "gamma"} ->
            AbstractTriangle_b_alpha_gamma_new(m.b, m.alpha, m.gamma)
      [] DOMAIN m = {"c", "alpha", "gamma"} ->
            AbstractTriangle_c_alpha_gamma_new(m.c, m.alpha, m.gamma)
      [] DOMAIN m = {"a", "beta", "gamma"} ->
            AbstractTriangle_a_beta_gamma_new(m.a, m.beta, m.gamma)
      [] DOMAIN m = {"b", "beta", "gamma"} ->
            AbstractTriangle_b_beta_gamma_new(m.b, m.beta, m.gamma)
      [] DOMAIN m = {"c", "beta", "gamma"} ->
            AbstractTriangle_c_beta_gamma_new(m.c, m.beta, m.gamma)

\* the three names of each arm of abstract_triangle!
FieldSets ==
    {{"a", "b", "c"}}
    \cup {xy \cup {g} : xy \in {{"a", "b"}, {"a", "c"}, {"b", "c"}},
                        g \in {"alpha", "beta", "gamma"}}
    \cup {{x} \cup gh : x \in {"a", "b", "c"},
                        gh \in {{"alpha", "beta"}, {"alpha", "gamma"}, {"beta", "gamma"}}}

\* base side of the solved triangles
MaxBase == 1

\* SolvedTriangle of the tests: the triangle with side a between ... and the
\* angles alpha, beta; every measurement from the angle sum and the sine rule
SolvedTriangle(a, alpha, beta) ==
    LET Solved(b, c, gamma) ==
            [a |-> a, b |-> b, c |-> c, alpha |-> alpha, beta |-> beta, gamma |-> gamma,
             area |-> Mul(F_0_5, Mul(Mul(a, b), sin(gamma))),
             altitude_a |-> Mul(b, sin(gamma)),
             altitude_b |-> Mul(a, sin(gamma)),
             altitude_c |-> Mul(a, sin(beta))]
        Measured(gamma) ==
            Solved(Div(Mul(a, sin(beta)), sin(alpha)),
                   Div(Mul(a, sin(gamma)), sin(alpha)), gamma)
    IN  Measured(ASub(PI, AAdd(alpha, beta)))

SolvedTriangles ==
    {SolvedTriangle(I(n), angles[1], angles[2]) :
        n \in 1..MaxBase,
        angles \in {w \in GoodAngles \X GoodAngles : ALt(AAdd(w[1], w[2]), PI)}}

NoSolution == [a |-> ZERO]

\* ------------------------------------------------------------------------
\* State
\* ------------------------------------------------------------------------
VARIABLES
    solution,   \* the solved triangle a test_solution call works on, or NoSolution
    args,       \* the named measurements passed to the constructor
    result,     \* what the constructor returned: res and the record tri
    acc,        \* the accessor called last on the record
    out         \* what that accessor returned, PANIC when an expect failed

vars == <<solution, args, result, acc, out>>

NoArgs == [none |-> TRUE]

NoResult == [res |-> "none", tri |-> NoTriangle]

Init ==
    /\ solution = NoSolution
    /\ args = NoArgs
    /\ result = NoResult
    /\ acc = "none"
    /\ out = <<>>

\* a call of a constructor with the measurements m; one call is looked at
\* at a time, so the callers start from the state with no arguments
Construct(m) ==
    /\ args' = m
    /\ result' = abstract_triangle(m)
    /\ acc' = "none"
    /\ out' = <<>>

New_abc ==
    /\ args = NoArgs
    /\ \E a \in Lengths, b \in Lengths, c \in Lengths : Construct([a |-> a, b |-> b, c |-> c])
    /\ solution' = NoSolution

New_ab_alpha ==
    /\ args = NoArgs
    /\ \E a \in Lengths, b \in Lengths, alpha \in Angles : Construct([a |-> a, b |-> b, alpha |-> alpha])
    /\ solution' = NoSolution

New_ac_alpha ==
    /\ args = NoArgs
    /\ \E a \in Lengths, c \in Lengths, alpha \in Angles : Construct([a |-> a, c |-> c, alpha |-> alpha])
    /\ solution' = NoSolution

New_bc_alpha ==
    /\ args = NoArgs
    /\ \E b \in Lengths, c \in Lengths, alpha \in Angles : Construct([b |-> b, c |-> c, alpha |-> alpha])
    /\ solution' = NoSolution

New_ab_beta ==
    /\ args = NoArgs
    /\ \E a \in Lengths, b \in Lengths, beta \in Angles : Construct([a |-> a, b |-> b, beta |-> beta])
    /\ solution' = NoSolution

New_ac_beta ==
    /\ args = NoArgs
    /\ \E a \in Lengths, c \in Lengths, beta \in Angles : Construct([a |-> a, c |-> c, beta |-> beta])
    /\ solution' = NoSolution

New_bc_beta ==
    /\ args = NoArgs
    /\ \E b \in Lengths, c \in Lengths, beta \in Angles : Construct([b |-> b, c |-> c, beta |-> beta])
    /\ solution' = NoSolution

New_ab_gamma ==
    /\ args = NoArgs
    /\ \E a \in Lengths, b \in Lengths, gamma \in Angles : Construct([a |-> a, b |-> b, gamma |-> gamma])
    /\ solution' = NoSolution

New_ac_gamma ==
    /\ args = NoArgs
    /\ \E a \in Lengths, c \in Lengths, gamma \in Angles : Construct([a |-> a, c |-> c, gamma |-> gamma])
    /\ solution' = NoSolution

New_bc_gamma ==
    /\ args = NoArgs
    /\ \E b \in Lengths, c \in Lengths, gamma \in Angles : Construct([b |-> b, c |-> c, gamma |-> gamma])
    /\ solution' = NoSolution

New_a_alpha_beta ==
    /\ args = NoArgs
    /\ \E a \in Lengths, alpha \in Angles, beta \in Angles : Construct([a |-> a, alpha |-> alpha, beta |-> beta])
    /\ solution' = NoSolution

New_b_alpha_beta ==
    /\ args = NoArgs
    /\ \E b \in Lengths, alpha \in Angles, beta \in Angles : Construct([b |-> b, alpha |-> alpha, beta |-> beta])
    /\ solution' = NoSolution

New_c_alpha_beta ==
    /\ args = NoArgs
    /\ \E c \in Lengths, alpha \in Angles, beta \in Angles : Construct([c |-> c, alpha |-> alpha, beta |-> beta])
    /\ solution' = NoSolution

New_a_alpha_gamma ==
    /\ args = NoArgs
    /\ \E a \in Lengths, alpha \in Angles, gamma \in Angles : Construct([a |-> a, alpha |-> alpha, gamma |-> gamma])
    /\ solution' = NoSolution

New_b_alpha_gamma ==
    /\ args = NoArgs
    /\ \E b \in Lengths, alpha \in Angles, gamma \in Angles : Construct([b |-> b, alpha |-> alpha, gamma |-> gamma])
    /\ solution' = NoSolution

New_c_alpha_gamma ==
    /\ args = NoArgs
    /\ \E c \in Lengths, alpha \in Angles, gamma \in Angles : Construct([c |-> c, alpha |-> alpha, gamma |-> gamma])
    /\ solution' = NoSolution

New_a_beta_gamma ==
    /\ args = NoArgs
    /\ \E a \in Lengths, beta \in Angles, gamma \in Angles : Construct([a |-> a, beta |-> beta, gamma |-> gamma])
    /\ solution' = NoSolution

New_b_beta_gamma ==
    /\ args = NoArgs
    /\ \E b \in Lengths, beta \in Angles, gamma \in Angles : Construct([b |-> b, beta |-> beta, gamma |-> gamma])
    /\ solution' = NoSolution

New_c_beta_gamma ==
    /\ args = NoArgs
    /\ \E c \in Lengths, beta \in Angles, gamma \in Angles : Construct([c |-> c, beta |-> beta, gamma |-> gamma])
    /\ solution' = NoSolution

\* Triangle::new on three points
New_Triangle ==
    /\ args = NoArgs
    /\ \E A \in Points, B \in Points, C \in Points :
            /\ args' = [A |-> A, B |-> B, C |-> C]
            /\ result' = Triangle_new(A, B, C)
    /\ acc' = "none"
    /\ out' = <<>>
    /\ solution' = NoSolution

\* Triangle::A, Triangle::B, Triangle::C on the triangle held
Vertex(name) ==
    /\ result.res = "Ok"
    /\ result.tri.variant = "Triangle"
    /\ acc = "none"
    /\ acc' = name
    /\ out' = result.tri[name]
    /\ UNCHANGED <<solution, args, result>>

Call_A == Vertex("A")

Call_B == Vertex("B")

Call_C == Vertex("C")

\* test_solution: each variant from the matching measurements of a solved triangle
test_solution ==
    /\ args = NoArgs
    /\ \E s \in SolvedTriangles, names \in FieldSets :
        /\ Construct([n \in names |-> s[n]])
        /\ solution' = s

\* the accessor of that name
Accessor(name, t) ==
    CASE name = "length_a" -> length_a(t)
      [] name = "length_b" -> length_b(t)
      [] name = "length_c" -> length_c(t)
      [] name = "angle_alpha" -> angle_alpha(t)
      [] name = "angle_beta" -> angle_beta(t)
      [] name = "angle_gamma" -> angle_gamma(t)
      [] name = "area" -> area(t)
      [] name = "altitude_a" -> altitude_a(t)
      [] name = "altitude_b" -> altitude_b(t)
      [] name = "altitude_c" -> altitude_c(t)

\* the measurement of a solved triangle an accessor answers for
Measurement(name) ==
    CASE name = "length_a" -> "a"
      [] name = "length_b" -> "b"
      [] name = "length_c" -> "c"
      [] name = "angle_alpha" -> "alpha"
      [] name = "angle_beta" -> "beta"
      [] name = "angle_gamma" -> "gamma"
      [] OTHER -> name

\* a call of an accessor on the record held. The accessors take the record by
\* value and leave it alone, so calls follow one another on the same record:
\* the first call, the same call once more, and a call of the accessor of a
\* given measurement after any other call
Call(accessor, v) ==
    /\ result.res = "Ok"
    /\ acc \in {"none", accessor}
                \cup (IF Measurement(accessor) \in DOMAIN result.tri THEN Accessors ELSE {})
    /\ Representable(result.tri)
    /\ acc' = accessor
    /\ out' = v
    /\ UNCHANGED <<solution, args, result>>

Call_length_a == Call("length_a", length_a(result.tri))

Call_length_b == Call("length_b", length_b(result.tri))

Call_length_c == Call("length_c", length_c(result.tri))

Call_angle_alpha == Call("angle_alpha", angle_alpha(result.tri))

Call_angle_beta == Call("angle_beta", angle_beta(result.tri))

Call_angle_gamma == Call("angle_gamma", angle_gamma(result.tri))

Call_area == Call("area", area(result.tri))

Call_altitude_a == Call("altitude_a", altitude_a(result.tri))

Call_altitude_b == Call("altitude_b", altitude_b(result.tri))

Call_altitude_c == Call("altitude_c", altitude_c(result.tri))

\* a call of return_solutions, as the six ambiguous side formulas make it
Call_return_solutions ==
    /\ args = NoArgs
    /\ \E value \in Values, squared \in Squares :
            /\ args' = [value |-> value, squared |-> squared]
            /\ out' = return_solutions(value, squared)
    /\ acc' = "return_solutions"
    /\ UNCHANGED <<solution, result>>

\* a call of formulas::triangle_area with three scalars; the square root of
\* the product is taken where it is rational
Call_triangle_area ==
    /\ args = NoArgs
    /\ \E a \in Lengths, b \in Lengths, c \in Lengths :
            /\ IsSquare(HeronProduct(a, b, c))
            /\ args' = [sides |-> <<a, b, c>>]
            /\ out' = triangle_area(a, b, c)
    /\ acc' = "triangle_area"
    /\ UNCHANGED <<solution, result>>

\* calls of the three angle formulas of law_of_cosines with three scalars
Call_alpha_from_abc ==
    /\ args = NoArgs
    /\ \E a \in Lengths, b \in Lengths, c \in Lengths :
            /\ args' = [sides |-> <<a, b, c>>]
            /\ out' = alpha_from_abc(a, b, c)
    /\ acc' = "alpha_from_abc"
    /\ UNCHANGED <<solution, result>>

Call_beta_from_abc ==
    /\ args = NoArgs
    /\ \E a \in Lengths, b \in Lengths, c \in Lengths :
            /\ args' = [sides |-> <<a, b, c>>]
            /\ out' = beta_from_abc(a, b, c)
    /\ acc' = "beta_from_abc"
    /\ UNCHANGED <<solution, result>>

Call_gamma_from_abc ==
    /\ args = NoArgs
    /\ \E a \in Lengths, b \in Lengths, c \in Lengths :
            /\ args' = [sides |-> <<a, b, c>>]
            /\ out' = gamma_from_abc(a, b, c)
    /\ acc' = "gamma_from_abc"
    /\ UNCHANGED <<solution, result>>

\* the call's arguments and results go out of scope
Drop ==
    /\ args # NoArgs
    /\ solution' = NoSolution
    /\ args' = NoArgs
    /\ result' = NoResult
    /\ acc' = "none"
    /\ out' = <<>>

Next ==
    \/ New_abc
    \/ New_ab_alpha
    \/ New_ac_alpha
    \/ New_bc_alpha
    \/ New_ab_beta
    \/ New_ac_beta
    \/ New_bc_beta
    \/ New_ab_gamma
    \/ New_ac_gamma
    \/ New_bc_gamma
    \/ New_a_alpha_beta
    \/ New_b_alpha_beta
    \/ New_c_alpha_beta
    \/ New_a_alpha_gamma
    \/ New_b_alpha_gamma
    \/ New_c_alpha_gamma
    \/ New_a_beta_gamma
    \/ New_b_beta_gamma
    \/ New_c_beta_gamma
    \/ New_Triangle
    \/ Call_A
    \/ Call_B
    \/ Call_C
    \/ test_solution
    \/ Call_length_a
    \/ Call_length_b
    \/ Call_length_c
    \/ Call_angle_alpha
    \/ Call_angle_beta
    \/ Call_angle_gamma
    \/ Call_area
    \/ Call_altitude_a
    \/ Call_altitude_b
    \/ Call_altitude_c
    \/ Call_return_solutions
    \/ Call_triangle_area
    \/ Call_alpha_from_abc
    \/ Call_beta_from_abc
    \/ Call_gamma_from_abc
    \/ Drop

Spec == Init /\ [][Next]_vars

\* ------------------------------------------------------------------------
\* Vocabulary of the properties
\* ------------------------------------------------------------------------
\* the call in args is a constructor call
ConstructorCall == DOMAIN args \in FieldSets

\* a length strictly positive and finite
PositiveFinite(x) == is_finite(x) /\ Gt(x, ZERO)

\* an angle strictly between 0 and PI
InsideHalfTurn(x) == a_is_finite(x) /\ AGt(x, ZERO_rad) /\ ALt(x, PI)

\* the side-side-angle variants with the angle not included: the side p
\* opposite the known angle, the other known side q, the known angle, and the
\* accessors of the derived side, of the altitude onto it, of the altitudes
\* onto the two known sides and of the known angle
NonIncluded ==
    [ab_alpha |-> [p |-> "a", q |-> "b", angle |-> "alpha", derived |-> "c",
                   length |-> "length_c", altitude |-> "altitude_c",
                   known_altitudes |-> {"altitude_a", "altitude_b"},
                   known_angle |-> "angle_alpha"],
     ac_alpha |-> [p |-> "a", q |-> "c", angle |-> "alpha", derived |-> "b",
                   length |-> "length_b", altitude |-> "altitude_b",
                   known_altitudes |-> {"altitude_a", "altitude_c"},
                   known_angle |-> "angle_alpha"],
     ab_beta  |-> [p |-> "b", q |-> "a", angle |-> "beta", derived |-> "c",
                   length |-> "length_c", altitude |-> "altitude_c",
                   known_altitudes |-> {"altitude_a", "altitude_b"},
                   known_angle |-> "angle_beta"],
     bc_beta  |-> [p |-> "b", q |-> "c", angle |-> "beta", derived |-> "a",
                   length |-> "length_a", altitude |-> "altitude_a",
                   known_altitudes |-> {"altitude_b", "altitude_c"},
                   known_angle |-> "angle_beta"],
     ac_gamma |-> [p |-> "c", q |-> "a", angle |-> "gamma", derived |-> "b",
                   length |-> "length_b", altitude |-> "altitude_b",
                   known_altitudes |-> {"altitude_a", "altitude_c"},
                   known_angle |-> "angle_gamma"],
     bc_gamma |-> [p |-> "c", q |-> "b", angle |-> "gamma", derived |-> "a",
                   length |-> "length_a", altitude |-> "altitude_a",
                   known_altitudes |-> {"altitude_b", "altitude_c"},
                   known_angle |-> "angle_gamma"]]

\* the call in args is a call of a non-included side-side-angle constructor
NonIncludedCall ==
    \E v \in SSA : DOMAIN args = {NonIncluded[v].p, NonIncluded[v].q, NonIncluded[v].angle}

CalledNonIncluded ==
    NonIncluded[CHOOSE v \in SSA :
                    DOMAIN args = {NonIncluded[v].p, NonIncluded[v].q, NonIncluded[v].angle}]

\* the record held is one of a non-included side-side-angle variant
HoldsNonIncluded == result.res = "Ok" /\ result.tri.variant \in SSA

\* the three sides of the record t of a non-included variant when its derived
\* side is s
Sides(t, s) ==
    LET d == NonIncluded[t.variant].derived
    IN  [a |-> IF d = "a" THEN s ELSE t.a,
         b |-> IF d = "b" THEN s ELSE t.b,
         c |-> IF d = "c" THEN s ELSE t.c]

\* what the accessor of that name is of the triangle with the sides x
OfSides(name, x) ==
    CASE name = "length_a" -> x.a
      [] name = "length_b" -> x.b
      [] name = "length_c" -> x.c
      [] name = "angle_alpha" -> Expect(alpha_from_abc(x.a, x.b, x.c))
      [] name = "angle_beta" -> Expect(beta_from_abc(x.a, x.b, x.c))
      [] name = "angle_gamma" -> Expect(gamma_from_abc(x.a, x.b, x.c))
      [] name = "area" -> Expect(triangle_area(x.a, x.b, x.c))
      [] name = "altitude_a" ->
            Div(Mul(I(2), Expect(triangle_area(x.a, x.b, x.c))), x.a)
      [] name = "altitude_b" ->
            Div(Mul(I(2), Expect(triangle_area(x.a, x.b, x.c))), x.b)
      [] name = "altitude_c" ->
            Div(Mul(I(2), Expect(triangle_area(x.a, x.b, x.c))), x.c)

\* ------------------------------------------------------------------------
\* Properties
\* ------------------------------------------------------------------------

\* C1: round trip. Every variant constructor given the matching three true
\* measurements of a solved triangle returns Ok, and each of the ten accessors
\* called on the record returns a solution set that contains the triangle's
\* true value (any_is holds for it).
C1_RoundTrip ==
    solution # NoSolution =>
        /\ result.res = "Ok"
        /\ Representable(result.tri)
        /\ acc \in Accessors =>
              /\ out # PANIC
              /\ any_is(result.tri.variant, acc, out, solution[Measurement(acc)])

\* a solved triangle rebuilt from two sides and a non-included angle has its
\* true third side as the second of two solutions
C1_Witness ==
    /\ solution # NoSolution
    /\ HoldsNonIncluded
    /\ acc = NonIncluded[result.tri.variant].length
    /\ out # PANIC
    /\ out[2] = Some(solution[NonIncluded[result.tri.variant].derived])

\* C2: for every input a non-included side-side-angle constructor accepts, the
\* ambiguous solve of the missing side returns Ok, and no accessor of the
\* record reaches the expect failure.
C2_AcceptedSolves ==
    (HoldsNonIncluded /\ Representable(result.tri)) =>
        /\ Accessor(NonIncluded[result.tri.variant].length, result.tri) # PANIC
        /\ acc \in Accessors => out # PANIC

\* the accessor of the derived side of an accepted record with two equal
\* sides and the right angle fails its expect
C2_Witness ==
    /\ HoldsNonIncluded
    /\ args[NonIncluded[result.tri.variant].p] = args[NonIncluded[result.tri.variant].q]
    /\ args[NonIncluded[result.tri.variant].angle] = <<0, 0, 1>>
    /\ acc = NonIncluded[result.tri.variant].length
    /\ out = PANIC

\* C3: AbstractTriangle_abc::new returns Err(InvalidLength) whenever a side is
\* greater than or equal to the sum of the other two, and returns Ok only when
\* the three strict inequalities hold and the sides are positive and finite.
C3_StrictTriangleInequality ==
    DOMAIN args = {"a", "b", "c"} =>
        /\ (\/ Le(Add(args.a, args.b), args.c)
            \/ Le(Add(args.a, args.c), args.b)
            \/ Le(Add(args.b, args.c), args.a)) => result = ErrTri("InvalidLength")
        /\ result.res = "Ok" =>
              /\ Gt(Add(args.a, args.b), args.c)
              /\ Gt(Add(args.a, args.c), args.b)
              /\ Gt(Add(args.b, args.c), args.a)
              /\ PositiveFinite(args.a) /\ PositiveFinite(args.b) /\ PositiveFinite(args.c)

\* a triple with one side equal to the sum of the other two is accepted
C3_Witness ==
    /\ DOMAIN args = {"a", "b", "c"}
    /\ result.res = "Ok"
    /\ Add(args.a, args.b) = args.c

\* C4: return_solutions(value, discriminant), for finite value and finite
\* discriminant >= 0, with root = sqrt(discriminant): both candidates
\* value + root and value - root non-positive gives Err(InvalidInput); exactly
\* one positive gives Ok with that value and no second; both positive and
\* equal gives Ok with the single value; both positive and distinct gives Ok
\* with value + root first, strictly the larger, and value - root second.
C4_Classification ==
    (/\ acc = "return_solutions"
     /\ is_finite(args.value) /\ is_finite(args.squared)
     /\ Ge(args.squared, ZERO)) =>
        LET root == sqrt(args.squared)
            plus == Add(args.value, root)
            minus == Sub(args.value, root)
        IN  /\ (Le(plus, ZERO) /\ Le(minus, ZERO)) => out = InvalidInput
            /\ (Gt(plus, ZERO) /\ Le(minus, ZERO)) => out = Ok(<<plus, None>>)
            /\ (Le(plus, ZERO) /\ Gt(minus, ZERO)) => out = Ok(<<minus, None>>)
            /\ (Gt(plus, ZERO) /\ Gt(minus, ZERO) /\ plus = minus)
                    => out = Ok(<<plus, None>>)
            /\ (Gt(plus, ZERO) /\ Gt(minus, ZERO) /\ plus # minus)
                    => out = Ok(<<plus, Some(minus)>>) /\ Gt(plus, minus)

\* return_solutions gave two distinct positive values
C4_Witness ==
    /\ acc = "return_solutions"
    /\ out.ok
    /\ out.v[2] # None
    /\ out.v[1] # out.v[2][1]

\* C5: in each non-included side-side-angle variant, for every accepted
\* input, an accessor typed (T, Option<T>) fails exactly when the accessor of
\* the derived side fails, and otherwise has the same solution count as the
\* derived side and its k-th solution is the value computed from the k-th
\* solution of that side.
C5_BranchByBranch ==
    (HoldsNonIncluded /\ acc \in Dual(result.tri.variant)) =>
        LET t == result.tri
            length == NonIncluded[t.variant].length
            derived == Accessor(length, t)
        IN  IF derived = PANIC THEN out = PANIC
            ELSE /\ out # PANIC
                 /\ count(t.variant, acc, out) = count(t.variant, length, derived)
                 /\ out[1] = OfSides(acc, Sides(t, derived[1]))
                 /\ derived[2] # None
                        => out[2] = Some(OfSides(acc, Sides(t, derived[2][1])))
                 /\ derived[2] = None => out[2] = None

\* an area with two solutions, one per solution of the derived side
C5_Witness ==
    /\ HoldsNonIncluded
    /\ acc = "area"
    /\ out # PANIC
    /\ out[2] # None
    /\ out[2][1] # out[1]

\* C6: in each non-included side-side-angle variant, whenever the derived
\* side has two solutions s1 and s2, 2*area(s1)/s1 equals 2*area(s2)/s2, and
\* the accessor of the altitude onto the derived side returns that value.
C6_AltitudeOntoDerivedSide ==
    (HoldsNonIncluded /\ acc = NonIncluded[result.tri.variant].altitude) =>
        LET t == result.tri
            derived == Accessor(NonIncluded[t.variant].length, t)
        IN  (derived # PANIC /\ derived[2] # None) =>
                /\ OfSides(acc, Sides(t, derived[1]))
                     = OfSides(acc, Sides(t, derived[2][1]))
                /\ out = OfSides(acc, Sides(t, derived[2][1]))

\* the altitude onto a derived side that has two solutions was asked for
C6_Witness ==
    /\ HoldsNonIncluded
    /\ acc = NonIncluded[result.tri.variant].altitude
    /\ out # PANIC
    /\ Accessor(NonIncluded[result.tri.variant].length, result.tri)[2] # None

C8_TangentBound ==
    ConstructorCall =>
        IF NonIncludedCall
        THEN LET v == CalledNonIncluded
                 p == args[v.p]
                 q == args[v.q]
                 angle == args[v.angle]
             IN  result.res = "AngleTooLarge" <=>
                    /\ PositiveFinite(p) /\ PositiveFinite(q)
                    /\ InsideHalfTurn(angle)
                    /\ Le(Div(p, q), I(1))
                    /\ AGt(angle, asin(Div(p, q))[1])
        ELSE result.res # "AngleTooLarge"

\* an acute angle above the tangent bound is rejected
C8_Witness ==
    /\ NonIncludedCall
    /\ result.res = "AngleTooLarge"
    /\ ALt(args[CalledNonIncluded.angle], <<0, 0, 1>>)

\* C9: when the side opposite the known angle is strictly longer than the
\* other known side, a non-included side-side-angle constructor accepts every
\* angle strictly between 0 and PI, and every accessor of the record has
\* exactly one solution.
C9_LongerOppositeSide ==
    (/\ NonIncludedCall
     /\ PositiveFinite(args[CalledNonIncluded.p])
     /\ PositiveFinite(args[CalledNonIncluded.q])
     /\ Gt(args[CalledNonIncluded.p], args[CalledNonIncluded.q])
     /\ InsideHalfTurn(args[CalledNonIncluded.angle])) =>
        /\ result.res = "Ok"
        /\ acc \in Accessors =>
              out # PANIC /\ count(result.tri.variant, acc, out) = 1

\* the derived side of a record with the longer side opposite an obtuse
\* angle was asked for
C9_Witness ==
    /\ NonIncludedCall
    /\ result.res = "Ok"
    /\ Gt(args[CalledNonIncluded.p], args[CalledNonIncluded.q])
    /\ AGt(args[CalledNonIncluded.angle], <<0, 0, 1>>)
    /\ acc = CalledNonIncluded.length
    /\ out # PANIC

\* C10: for all 19 constructors, a supplied length <= 0 or non-finite gives
\* Err(InvalidLength) whatever the angles are; otherwise a supplied angle
\* <= 0, >= PI or non-finite gives Err(InvalidAngle); no record is produced in
\* either case.
C10_RangeValidation ==
    ConstructorCall =>
        LET lengths == {args[n] : n \in DOMAIN args \cap {"a", "b", "c"}}
            angles == {args[n] : n \in DOMAIN args \cap {"alpha", "beta", "gamma"}}
        IN  IF \E x \in lengths : ~PositiveFinite(x)
            THEN result = ErrTri("InvalidLength")
            ELSE (\E x \in angles : ~InsideHalfTurn(x)) => result = ErrTri("InvalidAngle")

\* a call with a bad length and a bad angle is answered InvalidLength
C10_Witness ==
    /\ ConstructorCall
    /\ \E n \in DOMAIN args \cap {"a", "b", "c"} : ~PositiveFinite(args[n])
    /\ \E n \in DOMAIN args \cap {"alpha", "beta", "gamma"} : ~InsideHalfTurn(args[n])
    /\ result.res = "InvalidLength"

\* the call in args is a call of a one-side-two-angle constructor
OneSideTwoAnglesCall ==
    ConstructorCall /\ Cardinality(DOMAIN args \cap {"a", "b", "c"}) = 1

\* the length and the two angles of a one-side-two-angle call
GivenLength == args[CHOOSE n \in DOMAIN args \cap {"a", "b", "c"} : TRUE]

GivenAngles == {args[n] : n \in DOMAIN args \cap {"alpha", "beta", "gamma"}}

\* the two given angles, each in (0, PI), sum to less than PI: the cosine
\* falls strictly on (0, PI), so x < PI - y exactly when cos(x) > -cos(y)
SumBelowHalfTurn ==
    \A w \in {<<n, m>> \in (DOMAIN args \cap {"alpha", "beta", "gamma"})
                              \X (DOMAIN args \cap {"alpha", "beta", "gamma"}) : n # m} :
        Gt(Add(cos(args[w[1]]), cos(args[w[2]])), ZERO)

\* C11: each of the nine one-side-two-angle constructors, given a positive
\* finite length and two angles each in (0, PI), returns Err(InvalidAngle)
\* when the angles sum to PI or more and returns Ok, with the record of the
\* three values, when their sum is strictly less than PI.
C11_AngleSum ==
    (/\ OneSideTwoAnglesCall
     /\ PositiveFinite(GivenLength)
     /\ \A x \in GivenAngles : InsideHalfTurn(x)) =>
        IF SumBelowHalfTurn
        THEN /\ result.res = "Ok"
             /\ \A n \in DOMAIN args : result.tri[n] = args[n]
        ELSE result = ErrTri("InvalidAngle")

\* two angles that sum to exactly PI are rejected
C11_Witness ==
    /\ OneSideTwoAnglesCall
    /\ PositiveFinite(GivenLength)
    /\ \A x \in GivenAngles : InsideHalfTurn(x)
    /\ \E x \in GivenAngles, y \in GivenAngles : x # y /\ Add(cos(x), cos(y)) = ZERO
    /\ result = ErrTri("InvalidAngle")

\* the record held is one of the thirteen variants that are not non-included
\* side-side-angle: three sides, two sides and the included angle, one side
\* and two angles
HoldsDetermined == result.res = "Ok" /\ result.tri.variant \notin SSA

\* the square the included-angle side formula takes the root of, for the
\* record t of an included-angle variant
IncludedSquare(t) ==
    LET sides == {t[n] : n \in DOMAIN t \cap {"a", "b", "c"}}
        p == CHOOSE x \in sides : TRUE
        q == IF Cardinality(sides) = 1 THEN p ELSE CHOOSE x \in sides : x # p
        angle == t[CHOOSE n \in DOMAIN t \cap {"alpha", "beta", "gamma"} : TRUE]
    IN  Sub(Add(Powi2(p), Powi2(q)), Mul(Mul(Mul(I(2), p), q), cos(angle)))

\* C12: for every input accepted by the constructors of the three-sides
\* variant, the three included-angle variants and the nine one-side-two-angle
\* variants, every formula the accessors call returns Ok - the three-sides
\* angle formulas (acos argument inside [-1, 1]), the included-angle side
\* formula (strictly positive finite square), the law-of-sines formulas
\* (non-negative finite length) - and no accessor reaches an expect failure.
C12_FormulasSucceed ==
    HoldsDetermined =>
        LET t == result.tri
        IN  /\ acc \in Accessors => out # PANIC
            /\ t.variant = "abc" =>
                  /\ alpha_from_abc(t.a, t.b, t.c).ok
                  /\ beta_from_abc(t.a, t.b, t.c).ok
                  /\ gamma_from_abc(t.a, t.b, t.c).ok
            /\ t.variant \in SAS =>
                  Gt(IncludedSquare(t), ZERO) /\ is_finite(IncludedSquare(t))
            /\ t.variant \in AAS =>
                  \A side \in {length_a(t), length_b(t), length_c(t)} :
                      side # PANIC /\ Ge(side, ZERO) /\ is_finite(side)

\* the angle opposite the longest side of an accepted three-sides record
\* with one side equal to the sum of the other two was asked for: the acos
\* argument is -1, on the edge of its range
C12_Witness ==
    /\ HoldsDetermined
    /\ result.tri.variant = "abc"
    /\ result.tri.a = Add(result.tri.b, result.tri.c)
    /\ acc = "angle_alpha"
    /\ out = PI

\* C13: a two-valued multi-solution value never holds two equal values:
\* whenever return_solutions returns a second value it differs from the
\* first, and for every accepted non-included side-side-angle record each
\* accessor typed (T, Option<T>) that returns a second value returns one
\* different from its first.
C13_TwoValuesDistinct ==
    /\ (acc = "return_solutions" /\ out.ok /\ out.v[2] # None)
            => out.v[2][1] # out.v[1]
    /\ (/\ HoldsNonIncluded
        /\ acc \in Dual(result.tri.variant)
        /\ out # PANIC
        /\ out[2] # None) => out[2][1] # out[1]

\* an angle found through chain_solution has two values
C13_Witness ==
    /\ HoldsNonIncluded
    /\ acc \in Dual(result.tri.variant) \cap {"angle_alpha", "angle_beta", "angle_gamma"}
    /\ out # PANIC
    /\ out[2] # None

\* C14: the three-sides variant, the three included-angle variants and the
\* nine one-side-two-angle variants are never ambiguous: none of their ten
\* accessors is typed (T, Option<T>), and for every accepted input each
\* accessor returns exactly one solution: count() = 1 and both() has no second.
C14_NeverAmbiguous ==
    HoldsDetermined =>
        /\ Dual(result.tri.variant) = {}
        /\ acc \in Accessors =>
              /\ out # PANIC
              /\ count(result.tri.variant, acc, out) = 1
              /\ both(result.tri.variant, acc, out) = <<out, None>>

\* the area of an accepted record of two sides and the included angle
C14_Witness ==
    /\ HoldsDetermined
    /\ result.tri.variant \in SAS
    /\ acc = "area"
    /\ out # PANIC

\* the six named measurements
Measurements == {"a", "b", "c", "alpha", "beta", "gamma"}

\* the variant three measurements name: the sides, then the angles
VariantName(names) ==
    LET side(n) == IF n \in names THEN n ELSE ""
        angle(n) == IF n \in names THEN "_" \o n ELSE ""
    IN  side("a") \o side("b") \o side("c")
            \o angle("alpha") \o angle("beta") \o angle("gamma")

\* C15: abstract_triangle! has an arm for every combination of three
\* distinct measurements of {a, b, c, alpha, beta, gamma} that contains a side
\* (19 combinations) and none for the three angles alone; a call dispatches
\* to the constructor of the variant its three names spell, and the record it
\* returns holds every supplied value in the field of the same name.
C15_Dispatch ==
    /\ FieldSets = {names \in SUBSET Measurements :
                        Cardinality(names) = 3 /\ names \cap {"a", "b", "c"} # {}}
    /\ Cardinality(FieldSets) = 19
    /\ {"alpha", "beta", "gamma"} \notin FieldSets
    /\ ConstructorCall =>
          /\ result = abstract_triangle(args)
          /\ result.res \in {"Ok", "InvalidLength", "InvalidAngle", "AngleTooLarge"}
          /\ result.res = "Ok" =>
                /\ result.tri.variant = VariantName(DOMAIN args)
                /\ DOMAIN result.tri = DOMAIN args \cup {"variant"}
                /\ \A n \in DOMAIN args : result.tri[n] = args[n]

\* a record of one side and two different angles came back from the selector
C15_Witness ==
    /\ OneSideTwoAnglesCall
    /\ result.res = "Ok"
    /\ Cardinality(GivenAngles) = 2
    /\ result.tri.variant = VariantName(DOMAIN args)

\* the values a solution of an accessor holds
Held(variant, accessor, v) ==
    IF accessor \in Dual(variant)
    THEN {v[1]} \cup (IF v[2] = None THEN {} ELSE {v[2][1]})
    ELSE {v}

\* what the closures passed to map return
Mapped == {"u", "w"}

\* an accessor returned a solution
Returned == result.res = "Ok" /\ acc \in Accessors /\ out # PANIC

\* C16: MaybeTwo::map keeps the shape. A single value x maps to f(x); a pair
\* (x, second) maps to (f(x), second.map(f)), the second staying None or
\* becoming Some(f(y)); map(f).count() equals count() and the order of the
\* values is kept.
C16_MapKeepsShape ==
    Returned =>
        LET variant == result.tri.variant
        IN  \A f \in [Held(variant, acc, out) -> Mapped] :
                LET Kept(m) ==
                        /\ count(variant, acc, m) = count(variant, acc, out)
                        /\ first(both(variant, acc, m)) = f[first(both(variant, acc, out))]
                        /\ IF acc \in Dual(variant)
                           THEN /\ m[1] = f[out[1]]
                                /\ out[2] = None => m[2] = None
                                /\ out[2] # None => m[2] = Some(f[out[2][1]])
                           ELSE m = f[out]
                IN  Kept(map(variant, acc, out, f))

\* a pair of two different values, which a closure can tell apart
C16_Witness ==
    /\ Returned
    /\ acc \in Dual(result.tri.variant)
    /\ out[2] # None
    /\ \E f \in [Held(result.tri.variant, acc, out) -> Mapped] :
            map(result.tri.variant, acc, out, f) = <<"u", Some("w")>>

\* C17: MaybeTwo::any_is(p) is true exactly when p holds for at least one
\* value held: p(x) for a single value x and for (x, None), p(x) or p(y) for
\* (x, Some(y)).
C17_AnyIs ==
    Returned =>
        LET variant == result.tri.variant
            held == Held(variant, acc, out)
        IN  /\ \A p \in [held -> BOOLEAN] :
                /\ any_is_f(variant, acc, out, p) = (\E s \in held : p[s])
                /\ IF acc \notin Dual(variant) THEN any_is_f(variant, acc, out, p) = p[out]
                   ELSE IF out[2] = None
                        THEN any_is_f(variant, acc, out, p) = p[out[1]]
                        ELSE any_is_f(variant, acc, out, p) = (p[out[1]] \/ p[out[2][1]])
            /\ \A x \in held \cup {ZERO} :
                any_is(variant, acc, out, x)
                    = any_is_f(variant, acc, out, [s \in held |-> s = x])

\* the measurement of the solved triangle is the second of two values
C17_Witness ==
    /\ Returned
    /\ solution # NoSolution
    /\ acc \in Dual(result.tri.variant)
    /\ out[2] # None
    /\ out[1] # solution[Measurement(acc)]
    /\ any_is_f(result.tri.variant, acc, out,
                [s \in Held(result.tri.variant, acc, out) |-> s = solution[Measurement(acc)]])

\* MaybeTwo::first of the solution of an accessor: self for T, self.0 for
\* (T, Option<T>)
first_of(variant, accessor, v) == IF accessor \in Dual(variant) THEN first(v) ELSE v

\* C18: count(), first() and both() of a solution agree. count() is 1 or 2,
\* and 2 exactly when both() has a second value; both().0 is first(); a
\* plain value x has both() = (x, None) and count() = 1; a pair is its own
\* both().
C18_CountFirstBoth ==
    Returned =>
        LET variant == result.tri.variant
            Agree(n, pair) ==
                /\ n \in {1, 2}
                /\ n = 2 <=> pair[2] # None
                /\ pair[1] = first_of(variant, acc, out)
                /\ Len(pair) = 2
                /\ IF acc \in Dual(variant) THEN pair = out
                   ELSE pair = <<out, None>> /\ n = 1
        IN  Agree(count(variant, acc, out), both(variant, acc, out))

\* a pair with a second value: count() is 2
C18_Witness ==
    /\ Returned
    /\ acc \in Dual(result.tri.variant)
    /\ count(result.tri.variant, acc, out) = 2
    /\ both(result.tri.variant, acc, out)[2] # None

\* the relabelling of the vertices that takes the non-included variant v to
\* the non-included variant w: the side opposite the known angle, the other
\* known side and the derived side of v go to those of w
SidePerm(v, w) ==
    [x \in {"a", "b", "c"} |->
        CASE x = NonIncluded[v].p -> NonIncluded[w].p
          [] x = NonIncluded[v].q -> NonIncluded[w].q
          [] OTHER -> NonIncluded[w].derived]

\* the accessor of a kind for the vertex x
Labelled(kind, x) ==
    CASE kind = "length" -> [a |-> "length_a", b |-> "length_b", c |-> "length_c"][x]
      [] kind = "angle" -> [a |-> "angle_alpha", b |-> "angle_beta", c |-> "angle_gamma"][x]
      [] kind = "altitude" ->
            [a |-> "altitude_a", b |-> "altitude_b", c |-> "altitude_c"][x]

\* the accessor that name becomes under the relabelling of v to w
RelabelledAccessor(v, w, name) ==
    IF name = "area" THEN "area"
    ELSE LET kx == CHOOSE kx \in {"length", "angle", "altitude"} \X {"a", "b", "c"} :
                        Labelled(kx[1], kx[2]) = name
         IN  Labelled(kx[1], SidePerm(v, w)[kx[2]])

\* the constructor call of the variant w with the side p opposite the known
\* angle, the other known side q and the angle theta
RelabelledCall(w, p, q, theta) ==
    abstract_triangle([n \in {NonIncluded[w].p, NonIncluded[w].q, NonIncluded[w].angle} |->
                            CASE n = NonIncluded[w].p -> p
                              [] n = NonIncluded[w].q -> q
                              [] OTHER -> theta])

\* p^2 - q^2 + q^2 cos^2(theta)
Discriminant(p, q, theta) ==
    Add(Sub(Powi2(p), Powi2(q)), Mul(Powi2(q), Powi2(cos(theta))))

\* C19: the six ambiguous side formulas are one function of the side p
\* opposite the known angle, the other known side q and the angle theta, with
\* value q cos(theta) and discriminant p^2 - q^2 + q^2 cos^2(theta); the
\* variant with the labels rotated or mirrored makes the same acceptance
\* decision and gives the same solutions under the permuted labels, and the
\* same area.
C19_RelabellingInvariance ==
    NonIncludedCall =>
        LET v == CHOOSE v \in SSA :
                    DOMAIN args = {NonIncluded[v].p, NonIncluded[v].q, NonIncluded[v].angle}
            Same(p, q, theta) ==
                /\ \A w \in SSA : RelabelledCall(w, p, q, theta).res = result.res
                /\ (result.res = "Ok" /\ Representable(result.tri)) =>
                      /\ Accessor(NonIncluded[v].length, result.tri)
                            = Expect(return_solutions(Mul(q, cos(theta)),
                                                      Discriminant(p, q, theta)))
                      /\ acc \in Accessors =>
                            \A w \in SSA :
                                /\ (acc \in Dual(v)) = (RelabelledAccessor(v, w, acc) \in Dual(w))
                                /\ Accessor(RelabelledAccessor(v, w, acc),
                                            RelabelledCall(w, p, q, theta).tri) = out
        IN  Same(args[NonIncluded[v].p], args[NonIncluded[v].q], args[NonIncluded[v].angle])

\* an area with two values that the variant with the labels mirrored returns
\* too
C19_Witness ==
    /\ HoldsNonIncluded
    /\ result.tri.variant = "ac_gamma"
    /\ acc = "area"
    /\ out # PANIC
    /\ out[2] # None
    /\ out = area(RelabelledCall("ab_beta", args.c, args.a, args.gamma).tri)

\* the value of the k-th solution branch: a plain value belongs to every
\* branch
Branch(variant, accessor, v, k) ==
    IF accessor \in Dual(variant) THEN (IF k = 1 THEN v[1] ELSE v[2][1]) ELSE v

\* the side an altitude is dropped onto
Base(altitude) ==
    CASE altitude = "altitude_a" -> "length_a"
      [] altitude = "altitude_b" -> "length_b"
      [] altitude = "altitude_c" -> "length_c"

\* C20: in every variant and every solution branch each altitude is twice
\* the area divided by the side it is dropped onto, with the area and the side
\* of that branch: altitude_x * length_x = 2 * area for x in {a, b, c}.
C20_AltitudeTimesBase ==
    (Returned /\ acc \in {"altitude_a", "altitude_b", "altitude_c"}) =>
        LET variant == result.tri.variant
            InBranches(side, area_) ==
                /\ side # PANIC /\ area_ # PANIC
                /\ acc \in Dual(variant)
                        => count(variant, acc, out) = count(variant, "area", area_)
                /\ \A k \in 1..count(variant, "area", area_) :
                        /\ Mul(Branch(variant, acc, out, k),
                               Branch(variant, Base(acc), side, k))
                             = Mul(I(2), Branch(variant, "area", area_, k))
                        /\ Branch(variant, acc, out, k)
                             = Div(Mul(I(2), Branch(variant, "area", area_, k)),
                                   Branch(variant, Base(acc), side, k))
        IN  InBranches(Accessor(Base(acc), result.tri), area(result.tri))

\* the altitude onto the derived side, one value, against the second of two
\* branches
C20_Witness ==
    /\ HoldsNonIncluded
    /\ acc = NonIncluded[result.tri.variant].altitude
    /\ out # PANIC
    /\ area(result.tri)[2] # None
    /\ area(result.tri)[2][1] # area(result.tri)[1]
    /\ Mul(out, Accessor(Base(acc), result.tri)[2][1]) = Mul(I(2), area(result.tri)[2][1])

\* C21: triangle_area returns Ok for sides that satisfy the triangle
\* inequality, and Err(InvalidInput) when the product s(s-a)(s-b)(s-c) is
\* negative or not finite.
C21_AreaInvalidInput ==
    acc = "triangle_area" =>
        LET Fails(a, b, c, A2) ==
                /\ (/\ PositiveFinite(a) /\ PositiveFinite(b) /\ PositiveFinite(c)
                    /\ Ge(Add(a, b), c) /\ Ge(Add(a, c), b) /\ Ge(Add(b, c), a)) => out.ok
                /\ (Lt(A2, ZERO) \/ ~is_finite(A2)) => out = InvalidInput
        IN  Fails(args.sides[1], args.sides[2], args.sides[3],
                  HeronProduct(args.sides[1], args.sides[2], args.sides[3]))

\* positive finite sides, one longer than the other two together: the product
\* is negative and Ok(NaN) comes back
C21_Witness ==
    /\ acc = "triangle_area"
    /\ \A i \in 1..3 : PositiveFinite(args.sides[i])
    /\ Lt(HeronProduct(args.sides[1], args.sides[2], args.sides[3]), ZERO)
    /\ out = Ok(NaN)

\* the argument of acos in the angle formula of that name
AcosArgument(name, a, b, c) ==
    CASE name = "alpha_from_abc" ->
            Div(Sub(Add(Powi2(b), Powi2(c)), Powi2(a)), Mul(Mul(I(2), b), c))
      [] name = "beta_from_abc" ->
            Div(Sub(Add(Powi2(a), Powi2(c)), Powi2(b)), Mul(Mul(I(2), a), c))
      [] name = "gamma_from_abc" ->
            Div(Sub(Add(Powi2(a), Powi2(b)), Powi2(c)), Mul(Mul(I(2), a), b))

\* one side is longer than the other two together
OneSideExceeds(a, b, c) ==
    Gt(a, Add(b, c)) \/ Gt(b, Add(a, c)) \/ Gt(c, Add(a, b))

\* one of the three angle formulas was called with positive finite sides
AngleFormulaCalled ==
    /\ acc \in {"alpha_from_abc", "beta_from_abc", "gamma_from_abc"}
    /\ \A i \in 1..3 : PositiveFinite(args.sides[i])

\* C22: alpha_from_abc, beta_from_abc and gamma_from_abc with positive sides
\* return Ok, the argument of acos lying in [-1, 1], whenever the sides
\* satisfy the triangle inequality, and Err(InvalidInput) when the argument
\* is outside [-1, 1], which is exactly when one side exceeds the sum of the
\* other two.
C22_AcosArgument ==
    AngleFormulaCalled =>
        LET Within(x, exceeds) ==
                /\ ~exceeds => (out.ok /\ Ge(x, I(-1)) /\ Le(x, I(1)))
                /\ (Lt(x, I(-1)) \/ Gt(x, I(1))) <=> exceeds
                /\ (Lt(x, I(-1)) \/ Gt(x, I(1))) => out = InvalidInput
                /\ out.ok => cos(out.v) = x
        IN  Within(AcosArgument(acc, args.sides[1], args.sides[2], args.sides[3]),
                   OneSideExceeds(args.sides[1], args.sides[2], args.sides[3]))

\* the side opposite the angle asked for exceeds the other two together
C22_Witness ==
    /\ AngleFormulaCalled
    /\ acc = "gamma_from_abc"
    /\ Gt(args.sides[3], Add(args.sides[1], args.sides[2]))
    /\ out = InvalidInput

\* C23: return_solutions returns Err(InvalidInput) whenever the discriminant
\* is negative or the value or the discriminant is not finite, and no Ok
\* result holds a length that is non-positive, NaN or infinite.
C23_FailFast ==
    acc = "return_solutions" =>
        /\ (\/ Lt(args.squared, ZERO)
            \/ ~is_finite(args.value)
            \/ ~is_finite(args.squared)) => out = InvalidInput
        /\ out.ok =>
              /\ PositiveFinite(out.v[1])
              /\ out.v[2] # None => PositiveFinite(out.v[2][1])

\* an infinite value with a discriminant that has a root is refused
C23_Witness ==
    /\ acc = "return_solutions"
    /\ args.value = PosInf
    /\ is_finite(args.squared)
    /\ Gt(args.squared, ZERO)
    /\ out = InvalidInput

\* the record held is one of a one-side-two-angle variant and an accessor
\* returned
ReturnedOneSideTwoAngles == Returned /\ result.tri.variant \in AAS

\* the angle accessor opposite a side and the side of a length accessor
Opposite(side) == [a |-> "angle_alpha", b |-> "angle_beta", c |-> "angle_gamma"][side]

\* the side that is given
GivenSide(t) == CHOOSE n \in {"a", "b", "c"} : n \in DOMAIN t

\* the side opposite the angle that is not given
DerivedAngleSide(t) ==
    CHOOSE x \in {"a", "b", "c"} : Measurement(Opposite(x)) \notin DOMAIN t

\* the two given angles, in the order alpha, beta, gamma
GivenAngles2(t) ==
    CASE "alpha" \notin DOMAIN t -> <<"beta", "gamma">>
      [] "beta" \notin DOMAIN t -> <<"alpha", "gamma">>
      [] OTHER -> <<"alpha", "beta">>

\* C24: in each one-side-two-angle variant the unknown angle is PI minus the
\* sum of the two known angles: for every accepted input the three angle
\* accessors sum to PI and the derived angle lies strictly between 0 and PI,
\* and each missing side is the law of sines on the known side with the angles
\* the angle accessors return, the derived one included.
C24_ThirdAngle ==
    ReturnedOneSideTwoAngles =>
        LET t == result.tri
            Angles3(alpha, beta, gamma) ==
                /\ AAdd(AAdd(alpha, beta), gamma) = PI
                /\ InsideHalfTurn(alpha) /\ InsideHalfTurn(beta) /\ InsideHalfTurn(gamma)
                /\ Accessor(Opposite(DerivedAngleSide(t)), t)
                        = ASub(PI, AAdd(t[GivenAngles2(t)[1]], t[GivenAngles2(t)[2]]))
                /\ \A x \in {"a", "b", "c"} \ {GivenSide(t)} :
                        acc = Labelled("length", x) =>
                            out = Expect(SineRule(t[GivenSide(t)],
                                                  [a |-> alpha, b |-> beta, c |-> gamma][x],
                                                  [a |-> alpha, b |-> beta,
                                                   c |-> gamma][GivenSide(t)]))
        IN  Angles3(angle_alpha(t), angle_beta(t), angle_gamma(t))

\* a missing side opposite the derived angle was computed, the derived angle
\* being obtuse
C24_Witness ==
    /\ ReturnedOneSideTwoAngles
    /\ acc = Labelled("length", DerivedAngleSide(result.tri))
    /\ AGt(Accessor(Opposite(DerivedAngleSide(result.tri)), result.tri), <<0, 0, 1>>)

\* the accessor of a given measurement returns the constructor's argument,
\* as a plain value, and the record holds the arguments
GivenReturned ==
    result.res = "Ok" =>
        /\ \A n \in DOMAIN args : result.tri[n] = args[n]
        /\ (acc \in Accessors /\ Measurement(acc) \in DOMAIN args) =>
              /\ out = args[Measurement(acc)]
              /\ acc \notin Dual(result.tri.variant)
              /\ count(result.tri.variant, acc, out) = 1

\* a call of an accessor leaves the record and the arguments alone, and the
\* accessor called once more returns what it returned
AccessorFrame ==
    (result.res = "Ok" /\ acc' \in Accessors) =>
        /\ result' = result
        /\ args' = args
        /\ acc' = acc => out' = out
        /\ Measurement(acc') \in DOMAIN args => out' = args[Measurement(acc')]

\* C25: in every variant the accessors of the three given measurements
\* return exactly the values passed to the constructor, single-valued; no
\* accessor call changes the record, so after any calls its three fields are
\* those of the constructor and an accessor called again returns the same
\* result.
C25_GivenUnchanged == []GivenReturned /\ [][AccessorFrame]_vars

\* the accessor of a given side returned the argument of a constructor of
\* two different sides
C25_Witness ==
    /\ result.res = "Ok"
    /\ result.tri.variant = "ab_gamma"
    /\ args.a # args.b
    /\ acc = "length_b"
    /\ out = args.b

\* the derived side of the record held was asked for
DerivedSideAsked ==
    /\ HoldsNonIncluded
    /\ acc = NonIncluded[result.tri.variant].length

\* the number of solutions the accessor returned, 0 when its expect failed
SolutionCount(variant, accessor, v) == IF v = PANIC THEN 0 ELSE count(variant, accessor, v)

\* two solutions exactly when p < q, theta is acute and p > q sin(theta), and
\* their product is then q^2 - p^2
TwoExactlyWhen(p, q, theta) ==
    /\ SolutionCount(result.tri.variant, acc, out) = 2
            <=> (Lt(p, q) /\ ALt(theta, <<0, 0, 1>>) /\ Gt(p, Mul(q, sin(theta))))
    /\ SolutionCount(result.tri.variant, acc, out) = 2
            => Mul(out[1], out[2][1]) = Sub(Powi2(q), Powi2(p))

\* C26: for an accepted non-included side-side-angle triangle with the known
\* angle theta, the side p opposite it and the other known side q, the
\* derived side has two solutions if and only if p < q, theta is acute and
\* p > q sin(theta); it has exactly one solution when p >= q or
\* p = q sin(theta); the product of two solutions is q^2 - p^2.
C26_AmbiguityCondition ==
    DerivedSideAsked =>
        LET One(p, q, theta) ==
                /\ TwoExactlyWhen(p, q, theta)
                /\ (Ge(p, q) \/ p = Mul(q, sin(theta)))
                        => SolutionCount(result.tri.variant, acc, out) = 1
        IN  One(args[NonIncluded[result.tri.variant].p],
                args[NonIncluded[result.tri.variant].q],
                args[NonIncluded[result.tri.variant].angle])

\* the same with the record left out whose derived side has no solution at
\* all: p = q with the right angle
C26_AmbiguityWhereSolved ==
    (DerivedSideAsked /\ out # PANIC) =>
        LET One(p, q, theta) ==
                /\ TwoExactlyWhen(p, q, theta)
                /\ (Ge(p, q) \/ p = Mul(q, sin(theta)))
                        => SolutionCount(result.tri.variant, acc, out) = 1
        IN  One(args[NonIncluded[result.tri.variant].p],
                args[NonIncluded[result.tri.variant].q],
                args[NonIncluded[result.tri.variant].angle])

\* p = q was accepted with an angle that is not acute, and the derived side
\* has no solution
C26_Witness ==
    /\ DerivedSideAsked
    /\ Ge(args[NonIncluded[result.tri.variant].p], args[NonIncluded[result.tri.variant].q])
    /\ ~ALt(args[NonIncluded[result.tri.variant].angle], <<0, 0, 1>>)
    /\ SolutionCount(result.tri.variant, acc, out) = 0

\* C27: for every triangle a constructor accepts, every length that
\* length_a, length_b and length_c return, in every solution branch, is
\* strictly positive and finite.
C27_LengthsPositiveFinite ==
    (Returned /\ acc \in {"length_a", "length_b", "length_c"}) =>
        \A length \in Held(result.tri.variant, acc, out) : PositiveFinite(length)

\* the derived side of a record whose side opposite the known angle is the
\* longer one: the candidate value - root is not positive and is left out
C27_Witness ==
    /\ DerivedSideAsked
    /\ Gt(args[NonIncluded[result.tri.variant].p], args[NonIncluded[result.tri.variant].q])
    /\ out # PANIC
    /\ out[2] = None
    /\ PositiveFinite(out[1])

\* every value of the solution an angle accessor or area returned is inside
\* its range
InsideRange ==
    /\ acc \in {"angle_alpha", "angle_beta", "angle_gamma"} =>
            \A angle \in Held(result.tri.variant, acc, out) : InsideHalfTurn(angle)
    /\ acc = "area" =>
            \A area_ \in Held(result.tri.variant, acc, out) : PositiveFinite(area_)

\* the three-sides record held has one side equal to the sum of the other two
HoldsFlat ==
    /\ result.res = "Ok"
    /\ result.tri.variant = "abc"
    /\ \/ Add(result.tri.a, result.tri.b) = result.tri.c
       \/ Add(result.tri.a, result.tri.c) = result.tri.b
       \/ Add(result.tri.b, result.tri.c) = result.tri.a

\* C28: for every triangle a constructor accepts, every angle that
\* angle_alpha, angle_beta and angle_gamma return, in every solution branch,
\* lies strictly between 0 and PI, and the area of every branch is strictly
\* positive.
C28_NoDegenerate == Returned => InsideRange

\* the same for the records other than the three-sides ones with one side
\* equal to the sum of the other two
C28_NoDegenerateWhereStrict == (Returned /\ ~HoldsFlat) => InsideRange

\* the area of an accepted three-sides record is 0
C28_Witness ==
    /\ HoldsFlat
    /\ acc = "area"
    /\ out = ZERO

\* the call in args is a call of Triangle::new
PointsCall == DOMAIN args = {"A", "B", "C"}

\* the three side lengths the accessors of the triangle t of points return
\* satisfy the strict triangle inequality
StrictlyTriangle(a, b, c) ==
    Gt(Add(a, b), c) /\ Gt(Add(a, c), b) /\ Gt(Add(b, c), a)

\* C29: Triangle::new returns Err(InvalidLength) exactly when two of the three
\* points are equal or a point has a coordinate that is not finite, and
\* otherwise Ok holding the three points, which A(), B() and C() return; every
\* triangle it accepts is a valid triangle whose angle and area accessors do
\* not fail.
C29_PointTriangle ==
    PointsCall =>
        /\ result.res = "InvalidLength" <=>
              \/ args.A = args.B \/ args.B = args.C \/ args.C = args.A
              \/ \E P \in {args.A, args.B, args.C}, i \in 1..2 : ~is_finite(P[i])
        /\ result.res # "InvalidLength" =>
              /\ result = OkTri([variant |-> "Triangle",
                                 A |-> args.A, B |-> args.B, C |-> args.C])
              /\ acc \in {"A", "B", "C"} => out = args[acc]
              /\ acc \in {"angle_alpha", "angle_beta", "angle_gamma", "area"} => out # PANIC
              /\ Representable(result.tri) =>
                    StrictlyTriangle(length_a(result.tri), length_b(result.tri),
                                     length_c(result.tri))

\* the same without the requirement that the accepted points span a triangle
C29_PointTriangleAccepted ==
    PointsCall =>
        /\ result.res = "InvalidLength" <=>
              \/ args.A = args.B \/ args.B = args.C \/ args.C = args.A
              \/ \E P \in {args.A, args.B, args.C}, i \in 1..2 : ~is_finite(P[i])
        /\ result.res # "InvalidLength" =>
              /\ result = OkTri([variant |-> "Triangle",
                                 A |-> args.A, B |-> args.B, C |-> args.C])
              /\ acc \in {"A", "B", "C"} => out = args[acc]
              /\ acc \in {"angle_alpha", "angle_beta", "angle_gamma", "area"} => out # PANIC

\* three different points on one line were accepted, and the area is 0
C29_Witness ==
    /\ PointsCall
    /\ result.res = "Ok"
    /\ args.A[2] = args.B[2] /\ args.B[2] = args.C[2]
    /\ acc = "area"
    /\ out = ZERO

\* return_solutions was called with arguments that pass its first test
PastFirstTest ==
    /\ acc = "return_solutions"
    /\ ~Lt(args.squared, ZERO)
    /\ is_finite(args.value)
    /\ is_finite(args.squared)

\* C30: in return_solutions root = sqrt(squared) >= 0, so value + root >=
\* value - root: when exactly one candidate is positive it is value + root,
\* the arm (false, true, false) that returns value - root alone is never
\* taken, and the first element of every Ok result is value + root.
C30_LargerFirst ==
    PastFirstTest =>
        LET Ordered(root, one, two) ==
                /\ Ge(root, ZERO)
                /\ Ge(one, two)
                /\ Gt(two, ZERO) => Gt(one, ZERO)
                /\ <<Gt(one, ZERO), Gt(two, ZERO), Eq(one, two)>> # <<FALSE, TRUE, FALSE>>
                /\ out.ok => out.v[1] = one
                /\ (out.ok /\ out.v[2] # None) => out.v[2][1] = two
        IN  Ordered(sqrt(args.squared),
                    Add(args.value, sqrt(args.squared)),
                    Sub(args.value, sqrt(args.squared)))

\* a negative value with a root that exceeds it: value + root alone is
\* positive and is the one returned
C30_Witness ==
    /\ PastFirstTest
    /\ Lt(args.value, ZERO)
    /\ out.ok
    /\ out.v[2] = None
    /\ out.v[1] = Add(args.value, sqrt(args.squared))
    /\ Lt(Sub(args.value, sqrt(args.squared)), ZERO)

====
